---- MODULE Spec2Model ----
(***************************************************************************)
(* Reflex / Confirmation / Risk pipeline of the trading backend            *)
(* (backend/src): shared state, tick path, trigger dispatch, risk          *)
(* governor, executor and the brain (plan ingest / clear) routes.          *)
(*                                                                         *)
(* Conventions                                                             *)
(*   Option<T>   : a sequence of length <= 1; None is << >>, Some(x) <<x>> *)
(*   f64 prices  : integers; every quote used has an even bid + ask, so    *)
(*                 (bid + ask) / 2.0 is the exact integer (bid+ask) \div 2 *)
(*   DateTime    : whole seconds since the start of the run (now)          *)
(*   Uuid::new_v4: a fresh number drawn from next_uuid                     *)
(*   format!(..) : a record holding the format string and its arguments    *)
(***************************************************************************)
EXTENDS Integers, Sequences, FiniteSets, TLC

\* ---------------------------------------------------------------------------
\* Bounds of the model
\* ---------------------------------------------------------------------------
MaxTicks == 3            \* tick requests accepted in one run
MaxPlans == 2            \* plans the planner posts in one run
MaxCloses == 2           \* close notifications in one run
MaxFailCount == 4        \* cap of consecutive_failures when record_failure is called freely
MaxInFlight == 3         \* requests served at one time when progress is checked
MaxProbeBuf == 16        \* samples recorded before the probe gate is called directly
MaxMarked == 1           \* of those, the samples that are not strictly inside the zone
MaxReplay == 5           \* ticks in the body of a backtest request that is written by hand
MaxBufLen == 3           \* samples recorded before check_confirmation is called directly
MaxRecorded == 32        \* record_tick calls per symbol when record_tick is called freely

\* ---------------------------------------------------------------------------
\* Program constants
\* ---------------------------------------------------------------------------
TICK_BUFFER_SIZE == 30
max_trades_per_day == 10
max_consecutive_failures == 3
cooldown_secs_after_failure == 300
max_spread == 50
require_zone_probe == TRUE
min_zone_ticks == 2
probe_lookback == 15
rsi_overbought == 70
rsi_oversold == 30
RETCODE_DONE == 10009
MOCK_TICKET == 999999
MAGIC == 420001
SECS_PER_DAY == 86400
SECS_PER_MIN == 60

\* ---------------------------------------------------------------------------
\* Option<T>
\* ---------------------------------------------------------------------------
None == << >>
Some(x) == << x >>
IsSome(o) == o # << >>
Unwrap(o) == o[1]
UnwrapOr(o, d) == IF o # << >> THEN o[1] ELSE d

\* chrono: DateTime<Utc>::date_naive, as a day number
date_naive(t) == t \div SECS_PER_DAY

\* ---------------------------------------------------------------------------
\* Risk governor (risk.rs)
\* ---------------------------------------------------------------------------
\* a String built by format!: the format string and its numeric argument
Str(fmt, n) == [fmt |-> fmt, n |-> n]

Approved == [kind |-> "Approved", fmt |-> "", s |-> Str("", 0), n |-> 0, m |-> 0]
Blocked(fmt, s, n, m) == [kind |-> "Blocked", fmt |-> fmt, s |-> s, n |-> n, m |-> m]

RiskInnerNew(t) ==
    [ is_killed            |-> FALSE,
      kill_reason          |-> None,
      trades_today         |-> 0,
      consecutive_failures |-> 0,
      last_failure_at      |-> None,
      last_trade_at        |-> None,
      daily_reset_date     |-> date_naive(t) ]

\* the daily reset at the head of pre_trade_check
DailyReset(inner, t) ==
    IF date_naive(t) > inner.daily_reset_date
    THEN [inner EXCEPT !.trades_today = 0, !.daily_reset_date = date_naive(t)]
    ELSE inner

InCooldown(inner, t) ==
    /\ IsSome(inner.last_failure_at)
    /\ t - Unwrap(inner.last_failure_at) < cooldown_secs_after_failure

\* variant: the limit compared with > instead of >=
DailyLimitReached_OffByOne(inner) ==
    /\ max_trades_per_day > 0
    /\ inner.trades_today > max_trades_per_day

DailyLimitReached(inner) ==
    /\ max_trades_per_day > 0
    /\ inner.trades_today >= max_trades_per_day

\* variant: the failure count compared with > instead of >=
AutoKillDue_OffByOne(inner) ==
    /\ max_consecutive_failures > 0
    /\ inner.consecutive_failures > max_consecutive_failures

AutoKillDue(inner) ==
    /\ max_consecutive_failures > 0
    /\ inner.consecutive_failures >= max_consecutive_failures

\* pre_trade_check: the decision it returns at time t
PreTradeDecision(inner0, t) ==
    LET inner == DailyReset(inner0, t) IN
    IF inner.is_killed
    THEN Blocked("Kill switch active: {}",
                 UnwrapOr(inner.kill_reason, Str("manual activation", 0)), 0, 0)
    ELSE IF InCooldown(inner, t)
    THEN Blocked("Cooldown: {remaining}s remaining after last failure", Str("", 0),
                 cooldown_secs_after_failure - (t - Unwrap(inner.last_failure_at)), 0)
    ELSE IF DailyLimitReached(inner)
    THEN Blocked("Daily trade limit reached: {}/{}", Str("", 0),
                 inner.trades_today, max_trades_per_day)
    ELSE IF AutoKillDue(inner)
    THEN Blocked("Auto-kill: {} consecutive execution failures", Str("", 0),
                 inner.consecutive_failures, 0)
    ELSE Approved

\* variant: the auto-kill branch returns Blocked without throwing the switch
PreTradeInner_NoLatch(inner0, t) ==
    LET inner == DailyReset(inner0, t) IN
    IF inner.is_killed \/ InCooldown(inner, t) \/ DailyLimitReached(inner)
       \/ AutoKillDue(inner)
    THEN inner
    ELSE [inner EXCEPT
            !.trades_today  = inner.trades_today + 1,
            !.last_trade_at = Some(t)]

\* variant: a check turned away by the cooldown still consumes a slot
PreTradeInner_CountCooldown(inner0, t) ==
    LET inner == DailyReset(inner0, t) IN
    IF inner.is_killed \/ DailyLimitReached(inner)
    THEN inner
    ELSE IF AutoKillDue(inner) /\ ~InCooldown(inner, t)
    THEN [inner EXCEPT
            !.is_killed   = TRUE,
            !.kill_reason = Some(Str("Auto-kill: {} consecutive execution failures",
                                     inner.consecutive_failures))]
    ELSE [inner EXCEPT
            !.trades_today  = inner.trades_today + 1,
            !.last_trade_at = Some(t)]

\* pre_trade_check: the state it leaves at time t
PreTradeInner(inner0, t) ==
    LET inner == DailyReset(inner0, t) IN
    IF inner.is_killed \/ InCooldown(inner, t) \/ DailyLimitReached(inner)
    THEN inner
    ELSE IF AutoKillDue(inner)
    THEN [inner EXCEPT
            !.is_killed   = TRUE,
            !.kill_reason = Some(Str("Auto-kill: {} consecutive execution failures",
                                     inner.consecutive_failures))]
    ELSE [inner EXCEPT
            !.trades_today  = inner.trades_today + 1,
            !.last_trade_at = Some(t)]

\* variant: a success also re-arms the switch
record_success_Rearms(inner) ==
    [inner EXCEPT !.consecutive_failures = 0, !.is_killed = FALSE,
                  !.kill_reason = None]

\* variant: a success also ends the cooldown
record_success_EndsCooldown(inner) ==
    [inner EXCEPT !.consecutive_failures = 0, !.last_failure_at = None]

record_success(inner) == [inner EXCEPT !.consecutive_failures = 0]

\* variant: the failure is timestamped but not counted
record_failure_NoCount(inner, t) ==
    [inner EXCEPT !.last_failure_at = Some(t)]

record_failure(inner, t) ==
    [inner EXCEPT !.consecutive_failures = inner.consecutive_failures + 1,
                  !.last_failure_at      = Some(t)]

kill(inner, reason) ==
    [inner EXCEPT !.is_killed = TRUE, !.kill_reason = Some(reason)]

\* variant: re-arming leaves the cooldown of the last failure running
rearm_KeepCooldown(inner) ==
    [inner EXCEPT !.is_killed            = FALSE,
                  !.kill_reason          = None,
                  !.consecutive_failures = 0]

rearm(inner) ==
    [inner EXCEPT !.is_killed            = FALSE,
                  !.kill_reason          = None,
                  !.consecutive_failures = 0,
                  !.last_failure_at      = None]

\* ---------------------------------------------------------------------------
\* Models (models/strategy.rs, models/position.rs, models/tick.rs)
\* ---------------------------------------------------------------------------
\* variant: the bounds of the zone are excluded
contains_Exclusive(zone, price) == price > zone.low /\ price < zone.high

\* EntryZone::contains
contains(zone, price) == price >= zone.low /\ price <= zone.high

\* ActiveStrategy::is_valid at time t
is_valid(strategy, t) ==
    IF IsSome(strategy.expires_at) THEN t < Unwrap(strategy.expires_at) ELSE TRUE

\* TickData::effective_mid
effective_mid(tk) == UnwrapOr(tk.mid, (tk.bid + tk.ask) \div 2)

\* RecentTick::new
RecentTickNew(bid, ask) == [mid |-> (bid + ask) \div 2, spread |-> ask - bid]

\* a status / error message: an optional Display wrapper around a format
\* string with one string and one numeric argument
Msg(wrap, fmt, s, n) == [wrap |-> wrap, fmt |-> fmt, s |-> s, n |-> n]

\* OpenPosition::from_strategy
OpenPositionFromStrategy(strategy, entry_price, uuid, t) ==
    [ position_id    |-> uuid,
      strategy_id    |-> strategy.strategy_id,
      symbol         |-> strategy.symbol,
      direction      |-> strategy.direction,
      entry_price    |-> entry_price,
      lot_size       |-> strategy.lot_size,
      take_profit    |-> strategy.take_profit,
      stop_loss      |-> strategy.stop_loss,
      mt5_ticket     |-> None,
      opened_at      |-> t,
      sl_moved_to_be |-> FALSE ]

\* TradeRecord::from_strategy
TradeRecordFromStrategy(strategy, entry_price, uuid, t) ==
    [ trade_id       |-> uuid,
      strategy_id    |-> strategy.strategy_id,
      symbol         |-> strategy.symbol,
      direction      |-> strategy.direction,
      entry_price    |-> entry_price,
      lot_size       |-> strategy.lot_size,
      take_profit    |-> strategy.take_profit,
      stop_loss      |-> strategy.stop_loss,
      mt5_ticket     |-> None,
      status         |-> "Pending",
      status_message |-> Msg("", "Order queued", "", 0),
      fired_at       |-> t,
      close_price    |-> None,
      profit_pips    |-> None,
      close_reason   |-> None,
      closed_at      |-> None ]

\* ---------------------------------------------------------------------------
\* Confirmation engine (engine/confirmation.rs)
\* ---------------------------------------------------------------------------
Confirmed == [confirmed |-> TRUE, reason |-> ""]
Rejected(reason) == [confirmed |-> FALSE, reason |-> reason]

Min(a, b) == IF a < b THEN a ELSE b

\* buffer.iter().rev().take(k): the k newest entries, newest first
RevTake(buffer, k) == [i \in 1..k |-> buffer[Len(buffer) + 1 - i]]

\* buffer.iter().rev().take_while(|t| zone.contains(t.mid)).count()
RECURSIVE InZoneConsecutive(_, _)
InZoneConsecutive(buffer, zone) ==
    IF buffer = << >> THEN 0
    ELSE IF contains(zone, buffer[Len(buffer)].mid)
         THEN 1 + InZoneConsecutive(SubSeq(buffer, 1, Len(buffer) - 1), zone)
         ELSE 0

\* variant: the probe is looked for in the whole buffer
ProbeFound_WholeBuffer(zone, dir, buffer) ==
    CASE dir = "Buy"  -> \E i \in 1..Len(buffer) : buffer[i].mid < zone.low
      [] dir = "Sell" -> \E i \in 1..Len(buffer) : buffer[i].mid > zone.high
      [] OTHER        -> FALSE

ProbeFound(zone, dir, buffer) ==
    LET lookback == Min(Len(buffer), probe_lookback)
        recent   == RevTake(buffer, lookback)
    IN  CASE dir = "Buy"  -> \E i \in 1..lookback : recent[i].mid < zone.low
          [] dir = "Sell" -> \E i \in 1..lookback : recent[i].mid > zone.high
          [] OTHER        -> FALSE

TotalDwell(current_bid, current_ask, zone, buffer) ==
    InZoneConsecutive(buffer, zone)
      + (IF contains(zone, (current_bid + current_ask) \div 2) THEN 1 ELSE 0)

\* variant: the RSI limits themselves are let through
RsiBlocked_Strict(dir, rsi_val) ==
    CASE dir = "Buy"  -> rsi_val > rsi_overbought
      [] dir = "Sell" -> rsi_val < rsi_oversold
      [] OTHER        -> FALSE

RsiBlocked(dir, rsi_val) ==
    CASE dir = "Buy"  -> rsi_val >= rsi_overbought
      [] dir = "Sell" -> rsi_val <= rsi_oversold
      [] OTHER        -> FALSE

\* variant: the zone probe is tested before the spread
check_confirmation_ProbeFirst(current_bid, current_ask, zone, dir, buffer, rsi) ==
    LET spread == current_ask - current_bid IN
    IF require_zone_probe /\ ~ProbeFound(zone, dir, buffer)
    THEN Rejected("no zone probe detected")
    ELSE IF spread > max_spread
    THEN Rejected("spread too wide")
    ELSE IF TotalDwell(current_bid, current_ask, zone, buffer) < min_zone_ticks
    THEN Rejected("insufficient zone dwell")
    ELSE IF IsSome(rsi) /\ RsiBlocked(dir, Unwrap(rsi))
    THEN Rejected("rsi out of range")
    ELSE Confirmed

\* check_confirmation under a ConfirmationConfig whose require_zone_probe is
\* `required` and whose other fields are the defaults
check_confirmation_with(required, current_bid, current_ask, zone, dir, buffer, rsi) ==
    LET spread == current_ask - current_bid IN
    IF spread > max_spread
    THEN Rejected("spread too wide")
    ELSE IF required /\ ~ProbeFound(zone, dir, buffer)
    THEN Rejected("no zone probe detected")
    ELSE IF TotalDwell(current_bid, current_ask, zone, buffer) < min_zone_ticks
    THEN Rejected("insufficient zone dwell")
    ELSE IF IsSome(rsi) /\ RsiBlocked(dir, Unwrap(rsi))
    THEN Rejected("rsi out of range")
    ELSE Confirmed

\* check_confirmation under ConfirmationConfig::from_env with no variable set
check_confirmation(current_bid, current_ask, zone, dir, buffer, rsi) ==
    check_confirmation_with(require_zone_probe, current_bid, current_ask, zone,
                            dir, buffer, rsi)

\* ---------------------------------------------------------------------------
\* Executor (engine/executor.rs)
\* ---------------------------------------------------------------------------
Ok(v) == [ok |-> TRUE, val |-> << v >>, err |-> << >>]
Err(e) == [ok |-> FALSE, val |-> << >>, err |-> << e >>]

BadRequest(msg) == [variant |-> "BadRequest", msg |-> msg]
ExecutionError(msg) == [variant |-> "ExecutionError", msg |-> msg]

\* Display of AppError (error.rs, #[error("...")])
to_string(e) ==
    CASE e.variant = "BadRequest"     -> [e.msg EXCEPT !.wrap = "Bad request: {0}"]
      [] e.variant = "ExecutionError" -> [e.msg EXCEPT !.wrap = "Trade execution error: {0}"]
      [] OTHER                        -> [e.msg EXCEPT !.wrap = "Internal error: {0}"]

build_order(symbol, direction, entry_price, sl, tp, lot_size, strategy_id) ==
    IF direction = "NoTrade"
    THEN Err(BadRequest(Msg("", "Cannot build order for NoTrade direction", "", 0)))
    ELSE Ok([ symbol  |-> symbol,
              action  |-> IF direction = "Buy" THEN "BUY" ELSE "SELL",
              volume  |-> lot_size,
              price   |-> entry_price,
              sl      |-> sl,
              tp      |-> tp,
              comment |-> Str("AGV-{}", strategy_id),
              magic   |-> MAGIC ])

\* what the broker endpoint does with one request
Reply(kind, status, retcode, order, comment) ==
    [kind |-> kind, status |-> status, retcode |-> retcode,
     order |-> order, comment |-> comment]

\* the mock short-circuit of fire_trade
MockResponse ==
    [retcode |-> RETCODE_DONE, order |-> Some(MOCK_TICKET), comment |-> Some("Mock Order")]

\* variant: retcode 10008 is also taken as done
fire_trade_PartialOk(reply) ==
    CASE reply.kind = "unreachable" ->
           Err(ExecutionError(Msg("", "MT5 unreachable: {e}", "connection refused", 0)))
      [] reply.kind = "timeout" ->
           Err(ExecutionError(Msg("", "MT5 unreachable: {e}", "operation timed out", 0)))
      [] reply.kind = "http" /\ ~(reply.status >= 200 /\ reply.status <= 299) ->
           Err(ExecutionError(Msg("", "MT5 HTTP {status}: {body}", "", reply.status)))
      [] reply.kind = "unparsable" ->
           Err(ExecutionError(Msg("", "MT5 response parse error: {e}", "expected value", 0)))
      [] OTHER ->
           IF reply.retcode \notin {RETCODE_DONE, 10008}
           THEN Err(ExecutionError(Msg("", "MT5 rejected: retcode={} comment={}",
                                       UnwrapOr(reply.comment, "unknown"), reply.retcode)))
           ELSE Ok([retcode |-> reply.retcode, order |-> reply.order,
                    comment |-> reply.comment])

\* fire_trade, given the reply of the broker endpoint
fire_trade(reply) ==
    CASE reply.kind = "unreachable" ->
           Err(ExecutionError(Msg("", "MT5 unreachable: {e}", "connection refused", 0)))
      [] reply.kind = "timeout" ->
           Err(ExecutionError(Msg("", "MT5 unreachable: {e}", "operation timed out", 0)))
      [] reply.kind = "http" /\ ~(reply.status >= 200 /\ reply.status <= 299) ->
           Err(ExecutionError(Msg("", "MT5 HTTP {status}: {body}", "", reply.status)))
      [] reply.kind = "unparsable" ->
           Err(ExecutionError(Msg("", "MT5 response parse error: {e}", "expected value", 0)))
      [] OTHER ->
           IF reply.retcode # RETCODE_DONE
           THEN Err(ExecutionError(Msg("", "MT5 rejected: retcode={} comment={}",
                                       UnwrapOr(reply.comment, "unknown"), reply.retcode)))
           ELSE Ok([retcode |-> reply.retcode, order |-> reply.order,
                    comment |-> reply.comment])

\* ---------------------------------------------------------------------------
\* Inputs
\* ---------------------------------------------------------------------------
Procs == {1, 2}                     \* concurrently running handle_tick tasks

Symbols == {"BTCUSD", "XAUUSD"}

\* instants at which the clock is read (seconds): cooldown and day boundaries
TimePoints == {0, 299, 300, 86400, 86700}

Zone == [low |-> 67000, high |-> 67050]

\* request bodies of POST /api/brain/strategy, before the planner's fresh id
PlanTemplates ==
    { [ symbol |-> "BTCUSD", direction |-> "Buy",  entry_zone |-> Zone,
        take_profit |-> 67200, stop_loss |-> 66950, opposing_zone |-> None,
        lot_size |-> 10, created_at |-> 0, expires_at |-> None ],
      [ symbol |-> "BTCUSD", direction |-> "Sell", entry_zone |-> Zone,
        take_profit |-> 66900, stop_loss |-> 67100, opposing_zone |-> None,
        lot_size |-> 10, created_at |-> 0, expires_at |-> Some(86400) ] }

Tick(symbol, bid, ask, rsi) ==
    [symbol |-> symbol, bid |-> bid, ask |-> ask, mid |-> None, rsi_14 |-> rsi]

\* request bodies of POST /api/mt5/tick
TickInputs ==
    { Tick("BTCUSD", 66990, 66992, None),      \* below the zone
      Tick("BTCUSD", 67024, 67026, None),      \* inside the zone
      Tick("BTCUSD", 67070, 67072, None),      \* above the zone
      Tick("XAUUSD", 67024, 67026, None) }

KillReasons == { Str("Manual kill via API", 0) }

BaseUrls == {"mock", "http://localhost:8081"}

\* ---------------------------------------------------------------------------
\* Lock discipline: the guards each handler takes, in program order
\* ---------------------------------------------------------------------------
\* the RwLocks of AppState and of RiskManager
Locks == { "active_strategy", "open_position", "trade_history", "tick_buffer",
           "latest_candle", "risk" }

Acquire(lock, mode) == [op |-> "acquire", lock |-> lock, mode |-> mode, exit |-> FALSE]
Release(lock) == [op |-> "release", lock |-> lock, mode |-> "", exit |-> FALSE]
\* the guard is dropped and the handler may return before its next guard
ReleaseExit(lock) == [op |-> "release", lock |-> lock, mode |-> "", exit |-> TRUE]
AwaitBroker == [op |-> "io", lock |-> "", mode |-> "", exit |-> FALSE]

\* a guard taken and dropped with no await in between
Guarded(lock, mode) == << Acquire(lock, mode), Release(lock) >>
GuardedExit(lock, mode) == << Acquire(lock, mode), ReleaseExit(lock) >>

\* variant: record_tick reads the buffer back while it holds the write guard
RecordTickLocks_Reenter ==
    << Acquire("tick_buffer", "write"), Acquire("tick_buffer", "read"),
       Release("tick_buffer"), Acquire("latest_candle", "write"),
       Release("latest_candle"), Release("tick_buffer") >>

\* AppState::record_tick: the candle guard is taken while the buffer guard is
\* held; both drop at the end of the function, the later one first
RecordTickLocks ==
    << Acquire("tick_buffer", "write"), Acquire("latest_candle", "write"),
       Release("latest_candle"), Release("tick_buffer") >>

\* evaluate_tick: record_tick, the plan clone, has_open_position_for,
\* get_tick_buffer; it may return NoAction after each of the last three
EvaluateTickLocks ==
    RecordTickLocks \o GuardedExit("active_strategy", "read")
                    \o GuardedExit("open_position", "read")
                    \o GuardedExit("tick_buffer", "read")

\* handle_tick after the broker call has resolved, Ok arm: set_open_position,
\* push_trade_record, record_success
OkArmLocks ==
    Guarded("open_position", "write") \o Guarded("trade_history", "write")
                                      \o Guarded("risk", "write")

\* Err arm: push_trade_record, record_failure
ErrArmLocks == Guarded("trade_history", "write") \o Guarded("risk", "write")

\* variant: the write guard of the consume block lives across the broker call
HandleTickLocks_HoldPlan ==
    EvaluateTickLocks \o GuardedExit("risk", "write")
                      \o << Acquire("active_strategy", "write"), AwaitBroker >>
                      \o << Release("active_strategy") >>

\* handle_tick up to the broker call: evaluate_tick, pre_trade_check (a
\* Blocked result or a build_order error returns), the consume block
HandleTickLocks ==
    EvaluateTickLocks \o GuardedExit("risk", "write")
                      \o Guarded("active_strategy", "write")
                      \o << AwaitBroker >>

\* handle_position_close: the snapshot (None returns), set_open_position,
\* the history update
HandlePositionCloseLocks ==
    GuardedExit("open_position", "read") \o Guarded("open_position", "write")
                                         \o Guarded("trade_history", "write")

\* the other routes: brain (set / get / clear strategy), risk (kill, rearm,
\* status), monitor (socket snapshot, position, history, stats), health
RouteLocks ==
    { Guarded("active_strategy", "write"),
      Guarded("active_strategy", "read"),
      Guarded("risk", "write"),
      Guarded("risk", "read"),
      Guarded("active_strategy", "read") \o Guarded("open_position", "read"),
      Guarded("open_position", "read"),
      Guarded("trade_history", "read") }

\* the requests in flight at one time: two ticks, a close, one other route
Handlers == { "handle_tick", "handle_tick_2", "handle_position_close", "route" }

TracesOf(h) ==
    IF h \in {"handle_tick", "handle_tick_2"} THEN { HandleTickLocks }
    ELSE IF h = "handle_position_close" THEN { HandlePositionCloseLocks }
    ELSE RouteLocks

\* ---------------------------------------------------------------------------
\* State
\* ---------------------------------------------------------------------------
VARIABLES
    now,               \* Utc::now()
    mt5_base_url,      \* environment variable MT5_BASE_URL
    active_strategy,   \* AppState.active_strategy : Option<ActiveStrategy>
    open_position,     \* AppState.open_position   : Option<OpenPosition>
    trade_history,     \* AppState.trade_history   : Vec<TradeRecord>
    tick_buffer,       \* AppState.tick_buffer     : symbol -> VecDeque<RecentTick>
    latest_candle,     \* AppState.latest_candle   : symbol -> Option<Candle>
    tick_count,        \* AppState.tick_count
    trade_count,       \* AppState.trade_count
    risk,              \* RiskManager.inner
    events,            \* messages sent on AppState.broadcast_tx, in order
    broker_orders,     \* requests the broker endpoint has received, in order
    last_ticket,       \* last ticket the broker has issued
    next_uuid,         \* source of Uuid::new_v4
    pc,                \* handle_tick task -> its position
    tick,              \* handle_tick task -> its request body
    strategy,          \* handle_tick task -> the cloned plan
    order,             \* handle_tick task -> the Mt5OrderRequest it built
    record,            \* handle_tick task -> its TradeRecord
    position,          \* handle_tick task -> the OpenPosition it built
    result,            \* handle_tick task -> what fire_trade returned
    response,          \* handle_tick task -> the action of its HTTP response
    close_pc,          \* handle_position_close task: its position
    payload,           \* handle_position_close task: its request body
    current_pos,       \* handle_position_close task: its snapshot
    close_response,    \* handle_position_close task: the message of its response
    decision,          \* what the latest pre_trade_check returned
    approvals,         \* Approved decisions returned on the current UTC day
    plans_posted,      \* plans the planner has posted
    ticks_sent,        \* tick requests received
    closes_sent,       \* close notifications received
    recorded,          \* symbol -> every sample passed to record_tick, in order
    confirmation,      \* what the latest direct call of check_confirmation returned
    backtest,          \* the BacktestRequest being put together, and its result
    rwlock,            \* each tokio RwLock of the state: its holders and its waiters
    lock_trace         \* request -> the lock operations it has still to make

shared == << active_strategy, open_position, trade_history, tick_buffer,
             latest_candle, tick_count, trade_count, risk, events >>
world  == << now, mt5_base_url, broker_orders, last_ticket, next_uuid >>
tasks  == << pc, tick, strategy, order, record, position, result, response >>
closer == << close_pc, payload, current_pos, close_response >>
counts == << decision, approvals, plans_posted, ticks_sent, closes_sent,
             recorded, confirmation, backtest >>
guards == << rwlock, lock_trace >>
vars   == << shared, world, tasks, closer, counts, guards >>

\* AppState::new, RiskManager::new, and no request in flight
Init ==
    /\ now = 0
    /\ mt5_base_url \in BaseUrls
    /\ active_strategy = None
    /\ open_position = None
    /\ trade_history = << >>
    /\ tick_buffer = [s \in Symbols |-> << >>]
    /\ latest_candle = [s \in Symbols |-> None]
    /\ tick_count = 0
    /\ trade_count = 0
    /\ risk = RiskInnerNew(0)
    /\ events = << >>
    /\ broker_orders = << >>
    /\ last_ticket = 1000
    /\ next_uuid = 1
    /\ pc = [p \in Procs |-> "idle"]
    /\ tick = [p \in Procs |-> None]
    /\ strategy = [p \in Procs |-> None]
    /\ order = [p \in Procs |-> None]
    /\ record = [p \in Procs |-> None]
    /\ position = [p \in Procs |-> None]
    /\ result = [p \in Procs |-> None]
    /\ response = [p \in Procs |-> None]
    /\ close_pc = "idle"
    /\ payload = None
    /\ current_pos = None
    /\ close_response = None
    /\ decision = None
    /\ approvals = [day |-> 0, count |-> 0]
    /\ plans_posted = 0
    /\ ticks_sent = 0
    /\ closes_sent = 0
    /\ recorded = [s \in Symbols |-> << >>]
    /\ confirmation = None
    /\ backtest = None
    /\ rwlock = [l \in Locks |-> [writer |-> None, readers |-> {}, queue |-> << >>]]
    /\ lock_trace = [h \in Handlers |-> << >>]

\* ---------------------------------------------------------------------------
\* Clock
\* ---------------------------------------------------------------------------
AdvanceClock(points) ==
    /\ \E t \in points : t > now /\ now' = t
    /\ UNCHANGED << shared, mt5_base_url, broker_orders, last_ticket, next_uuid,
                    tasks, closer, counts, guards >>

\* ---------------------------------------------------------------------------
\* Brain routes (routes/brain.rs)
\* ---------------------------------------------------------------------------
\* POST /api/brain/strategy
set_strategy(tpl) ==
    /\ plans_posted < MaxPlans
    /\ plans_posted' = plans_posted + 1
    /\ active_strategy' =
         Some([ strategy_id   |-> plans_posted + 1,
                symbol        |-> tpl.symbol,
                direction     |-> tpl.direction,
                entry_zone    |-> tpl.entry_zone,
                take_profit   |-> tpl.take_profit,
                stop_loss     |-> tpl.stop_loss,
                opposing_zone |-> tpl.opposing_zone,
                lot_size      |-> tpl.lot_size,
                created_at    |-> tpl.created_at,
                expires_at    |-> tpl.expires_at ])
    /\ UNCHANGED << open_position, trade_history, tick_buffer, latest_candle,
                    tick_count, trade_count, risk, events, world, tasks, closer,
                    decision, approvals, ticks_sent, closes_sent, recorded,
                    confirmation, backtest, guards >>

\* variant: clearing the plan also drops the open position
clear_strategy_Flatten ==
    /\ active_strategy' = None
    /\ open_position' = None
    /\ UNCHANGED << trade_history, tick_buffer, latest_candle,
                    tick_count, trade_count, risk, events, world, tasks, closer,
                    counts, guards >>

\* DELETE /api/brain/strategy; the response is the same constant body each time
clear_strategy ==
    /\ active_strategy' = None
    /\ UNCHANGED << open_position, trade_history, tick_buffer, latest_candle,
                    tick_count, trade_count, risk, events, world, tasks, closer,
                    counts, guards >>

\* ---------------------------------------------------------------------------
\* Risk routes (routes/risk.rs) and direct calls of the risk governor
\* ---------------------------------------------------------------------------
RiskFrame ==
    UNCHANGED << active_strategy, open_position, trade_history, tick_buffer,
                 latest_candle, tick_count, trade_count, events, world, tasks,
                 closer, plans_posted, ticks_sent, closes_sent, recorded,
                 confirmation, backtest, guards >>

\* the Approved decisions counted against the UTC day of t
CountApproval(d, t) ==
    IF d.kind # "Approved" THEN approvals
    ELSE IF approvals.day = date_naive(t)
    THEN [approvals EXCEPT !.count = approvals.count + 1]
    ELSE [day |-> date_naive(t), count |-> 1]

\* POST /api/risk/kill
kill_switch_on(reason) ==
    /\ risk' = kill(risk, reason)
    /\ UNCHANGED << decision, approvals >>
    /\ RiskFrame

\* POST /api/risk/rearm
kill_switch_off ==
    /\ risk' = rearm(risk)
    /\ UNCHANGED << decision, approvals >>
    /\ RiskFrame

\* a caller invoking RiskManager::pre_trade_check
PreTradeCheckCall ==
    /\ decision' = Some(PreTradeDecision(risk, now))
    /\ risk' = PreTradeInner(risk, now)
    /\ approvals' = CountApproval(PreTradeDecision(risk, now), now)
    /\ RiskFrame

\* a caller invoking RiskManager::record_success
RecordSuccessCall ==
    /\ risk' = record_success(risk)
    /\ UNCHANGED << decision, approvals >>
    /\ RiskFrame

\* a caller invoking RiskManager::record_failure
RecordFailureCall ==
    /\ risk.consecutive_failures < MaxFailCount
    /\ risk' = record_failure(risk, now)
    /\ UNCHANGED << decision, approvals >>
    /\ RiskFrame

\* ---------------------------------------------------------------------------
\* Shared state helpers (state.rs)
\* ---------------------------------------------------------------------------
\* variant: a full buffer gives up its newest sample instead of its oldest
BufferPush_EvictNewest(entry, bid, ask) ==
    Append(IF Len(entry) >= TICK_BUFFER_SIZE
           THEN SubSeq(entry, 1, Len(entry) - 1) ELSE entry,
           RecentTickNew(bid, ask))

\* variant: the new sample is pushed at the front
BufferPush_Front(entry, bid, ask) ==
    << RecentTickNew(bid, ask) >>
      \o (IF Len(entry) >= TICK_BUFFER_SIZE THEN Tail(entry) ELSE entry)

\* the tick-buffer half of AppState::record_tick
BufferPush(entry, bid, ask) ==
    Append(IF Len(entry) >= TICK_BUFFER_SIZE THEN Tail(entry) ELSE entry,
           RecentTickNew(bid, ask))

\* Candle::new
CandleNew(symbol, t, price) ==
    [ symbol     |-> symbol,
      start_time |-> (t \div SECS_PER_MIN) * SECS_PER_MIN,
      open       |-> price,
      high       |-> price,
      low        |-> price,
      close      |-> price,
      tick_count |-> 1 ]

\* Candle::update
CandleUpdate(c, price) ==
    [c EXCEPT !.high = IF price > c.high THEN price ELSE c.high,
              !.low  = IF price < c.low THEN price ELSE c.low,
              !.close = price,
              !.tick_count = c.tick_count + 1]

\* the candle half of AppState::record_tick
CandleStep(entry, symbol, bid, ask, t) ==
    LET mid_price == (bid + ask) \div 2
        candle    == IF IsSome(entry) THEN Unwrap(entry)
                     ELSE CandleNew(symbol, t, mid_price)
    IN  IF t \div SECS_PER_MIN > candle.start_time \div SECS_PER_MIN
        THEN Some(CandleNew(symbol, t, mid_price))
        ELSE Some(CandleUpdate(candle, mid_price))

\* variant: the symbol comparison inverted
has_open_position_for_Inverted(symbol) ==
    IF IsSome(open_position) THEN Unwrap(open_position).symbol # symbol ELSE FALSE

\* AppState::has_open_position_for
has_open_position_for(symbol) ==
    IF IsSome(open_position) THEN Unwrap(open_position).symbol = symbol ELSE FALSE

\* AppState::get_tick_buffer
get_tick_buffer(symbol) == tick_buffer[symbol]

\* AppState::broadcast: the event is appended to the channel
Broadcast(ev) == events' = Append(events, ev)

Event(name, body) == [event |-> name, body |-> body]

\* ---------------------------------------------------------------------------
\* handle_tick (routes/mt5.rs) with evaluate_tick (engine/reflex.rs) inlined;
\* one action per acquisition of a shared object
\* ---------------------------------------------------------------------------
TaskFrame == UNCHANGED << closer, plans_posted, closes_sent, recorded, confirmation, backtest, guards >>

\* the handler returns to its caller with the given action
Finish(p, action) ==
    /\ pc' = [pc EXCEPT ![p] = "done"]
    /\ response' = [response EXCEPT ![p] = Some(action)]

\* entry price as evaluate_tick selects it (NoTrade is excluded upstream)
ReflexEntryPrice(st, tk) == IF st.direction = "Buy" THEN tk.ask ELSE tk.bid

\* variant: the sides swapped (bid for Buy, ask for Sell)
DispatchEntryPrice_Swapped(st, tk) ==
    CASE st.direction = "Buy"  -> tk.bid
      [] st.direction = "Sell" -> tk.ask
      [] OTHER                 -> effective_mid(tk)

\* entry price as handle_tick recomputes it
DispatchEntryPrice(st, tk) ==
    CASE st.direction = "Buy"  -> tk.ask
      [] st.direction = "Sell" -> tk.bid
      [] OTHER                 -> effective_mid(tk)

\* request received (a new task takes the lowest free slot);
\* evaluate_tick steps 1-2: record_tick, tick_count
handle_tick_begin(p, tk) ==
    /\ pc[p] = "idle"
    /\ \A q \in Procs : q < p => pc[q] # "idle"
    /\ ticks_sent < MaxTicks
    /\ ticks_sent' = ticks_sent + 1
    /\ tick' = [tick EXCEPT ![p] = Some(tk)]
    /\ tick_buffer' = [tick_buffer EXCEPT
                         ![tk.symbol] = BufferPush(@, tk.bid, tk.ask)]
    /\ latest_candle' = [latest_candle EXCEPT
                           ![tk.symbol] = CandleStep(@, tk.symbol, tk.bid, tk.ask, now)]
    /\ tick_count' = tick_count + 1
    /\ pc' = [pc EXCEPT ![p] = "read_strategy"]
    /\ UNCHANGED << active_strategy, open_position, trade_history, trade_count,
                    risk, events, world, strategy, order, record, position,
                    result, response, decision, approvals >>
    /\ recorded' = [recorded EXCEPT
                      ![tk.symbol] = Append(@, RecentTickNew(tk.bid, tk.ask))]
    /\ backtest' = IF backtest = None THEN None
                   ELSE Some([Unwrap(backtest) EXCEPT !.ticks = Append(@, tk),
                                                      !.result = None])
    /\ UNCHANGED << closer, plans_posted, closes_sent, confirmation, guards >>

\* variant: the risk check is run before the plan is looked at
evaluate_read_strategy_RiskFirst(p) ==
    /\ pc[p] = "read_strategy"
    /\ risk' = PreTradeInner(risk, now)
    /\ IF active_strategy = None
       THEN Finish(p, "NO_ACTION") /\ UNCHANGED strategy
       ELSE LET st == Unwrap(active_strategy) IN
            IF \/ st.symbol # Unwrap(tick[p]).symbol
               \/ ~is_valid(st, now)
               \/ st.direction = "NoTrade"
            THEN Finish(p, "NO_ACTION") /\ UNCHANGED strategy
            ELSE /\ strategy' = [strategy EXCEPT ![p] = Some(st)]
                 /\ pc' = [pc EXCEPT ![p] = "double_entry"]
                 /\ UNCHANGED response
    /\ UNCHANGED << active_strategy, open_position, trade_history, tick_buffer,
                    latest_candle, tick_count, trade_count, events, world, tick,
                    order, record, position, result, decision, approvals,
                    ticks_sent >>
    /\ TaskFrame

\* variant: evaluate_tick without its direction guard
evaluate_read_strategy_NoDirectionGuard(p) ==
    /\ pc[p] = "read_strategy"
    /\ IF active_strategy = None
       THEN Finish(p, "NO_ACTION") /\ UNCHANGED strategy
       ELSE LET st == Unwrap(active_strategy) IN
            IF \/ st.symbol # Unwrap(tick[p]).symbol
               \/ ~is_valid(st, now)
            THEN Finish(p, "NO_ACTION") /\ UNCHANGED strategy
            ELSE /\ strategy' = [strategy EXCEPT ![p] = Some(st)]
                 /\ pc' = [pc EXCEPT ![p] = "double_entry"]
                 /\ UNCHANGED response
    /\ UNCHANGED << shared, world, tick, order, record, position, result,
                    decision, approvals, ticks_sent >>
    /\ TaskFrame

\* evaluate_tick steps 3-6: clone the plan, symbol / expiry / direction guards
evaluate_read_strategy(p) ==
    /\ pc[p] = "read_strategy"
    /\ IF active_strategy = None
       THEN Finish(p, "NO_ACTION") /\ UNCHANGED strategy
       ELSE LET st == Unwrap(active_strategy) IN
            IF \/ st.symbol # Unwrap(tick[p]).symbol
               \/ ~is_valid(st, now)
               \/ st.direction = "NoTrade"
            THEN Finish(p, "NO_ACTION") /\ UNCHANGED strategy
            ELSE /\ strategy' = [strategy EXCEPT ![p] = Some(st)]
                 /\ pc' = [pc EXCEPT ![p] = "double_entry"]
                 /\ UNCHANGED response
    /\ UNCHANGED << shared, world, tick, order, record, position, result,
                    decision, approvals, ticks_sent >>
    /\ TaskFrame

\* evaluate_tick steps 7-9: double-entry guard, entry price, zone check
evaluate_double_entry(p) ==
    /\ pc[p] = "double_entry"
    /\ LET st == Unwrap(strategy[p])
           tk == Unwrap(tick[p])
       IN  IF has_open_position_for(tk.symbol)
           THEN Finish(p, "NO_ACTION")
           ELSE IF st.direction = "NoTrade"
           THEN Finish(p, "PANIC")              \* unreachable!()
           ELSE IF ~contains(st.entry_zone, ReflexEntryPrice(st, tk))
           THEN Finish(p, "NO_ACTION")
           ELSE pc' = [pc EXCEPT ![p] = "confirmation"] /\ UNCHANGED response
    /\ UNCHANGED << shared, world, tick, strategy, order, record, position,
                    result, decision, approvals, ticks_sent >>
    /\ TaskFrame

\* evaluate_tick step 10: snapshot the tick buffer, check_confirmation
evaluate_confirmation(p) ==
    /\ pc[p] = "confirmation"
    /\ LET st == Unwrap(strategy[p])
           tk == Unwrap(tick[p])
           verdict == check_confirmation(tk.bid, tk.ask, st.entry_zone,
                                         st.direction,
                                         get_tick_buffer(tk.symbol), tk.rsi_14)
       IN  IF verdict.confirmed
           THEN /\ trade_count' = trade_count + 1
                /\ pc' = [pc EXCEPT ![p] = "risk_check"]
                /\ UNCHANGED response
           ELSE /\ Finish(p, "NO_ACTION")
                /\ UNCHANGED trade_count
    /\ UNCHANGED << active_strategy, open_position, trade_history, tick_buffer,
                    latest_candle, tick_count, risk, events, world, tick,
                    strategy, order, record, position, result, decision,
                    approvals, ticks_sent >>
    /\ TaskFrame

\* variant: the plan is consumed before the risk decision is looked at
dispatch_risk_check_Consume(p) ==
    /\ pc[p] = "risk_check"
    /\ decision' = Some(PreTradeDecision(risk, now))
    /\ risk' = PreTradeInner(risk, now)
    /\ approvals' = CountApproval(PreTradeDecision(risk, now), now)
    /\ active_strategy' = None
    /\ IF PreTradeDecision(risk, now).kind = "Blocked"
       THEN Finish(p, "RISK_BLOCKED")
       ELSE pc' = [pc EXCEPT ![p] = "trade_firing"] /\ UNCHANGED response
    /\ UNCHANGED << open_position, trade_history, tick_buffer,
                    latest_candle, tick_count, trade_count, events, world, tick,
                    strategy, order, record, position, result, ticks_sent >>
    /\ TaskFrame

\* handle_tick on Trigger: pre_trade_check
dispatch_risk_check(p) ==
    /\ pc[p] = "risk_check"
    /\ decision' = Some(PreTradeDecision(risk, now))
    /\ risk' = PreTradeInner(risk, now)
    /\ approvals' = CountApproval(PreTradeDecision(risk, now), now)
    /\ IF PreTradeDecision(risk, now).kind = "Blocked"
       THEN Finish(p, "RISK_BLOCKED")
       ELSE pc' = [pc EXCEPT ![p] = "trade_firing"] /\ UNCHANGED response
    /\ UNCHANGED << active_strategy, open_position, trade_history, tick_buffer,
                    latest_candle, tick_count, trade_count, events, world, tick,
                    strategy, order, record, position, result, ticks_sent >>
    /\ TaskFrame

\* variant: the Pending record is put into history when it is built
dispatch_trade_firing_Push(p) ==
    /\ pc[p] = "trade_firing"
    /\ LET st    == Unwrap(strategy[p])
           price == DispatchEntryPrice(st, Unwrap(tick[p]))
           built == build_order(st.symbol, st.direction, price, st.stop_loss,
                                st.take_profit, st.lot_size, st.strategy_id)
           rec   == TradeRecordFromStrategy(st, price, next_uuid, now)
       IN  IF ~built.ok
           THEN /\ Finish(p, "ERROR")
                /\ UNCHANGED << order, record, events, next_uuid, trade_history >>
           ELSE /\ order' = [order EXCEPT ![p] = built.val]
                /\ record' = [record EXCEPT ![p] = Some(rec)]
                /\ trade_history' = Append(trade_history, rec)
                /\ next_uuid' = next_uuid + 1
                /\ Broadcast(Event("TRADE_FIRING", rec))
                /\ pc' = [pc EXCEPT ![p] = "consume"]
                /\ UNCHANGED response
    /\ UNCHANGED << active_strategy, open_position, tick_buffer,
                    latest_candle, tick_count, trade_count, risk, now,
                    mt5_base_url, broker_orders, last_ticket, tick, strategy,
                    position, result, decision, approvals, ticks_sent >>
    /\ TaskFrame

\* entry price, build_order, the Pending TradeRecord, broadcast TradeFiring
dispatch_trade_firing(p) ==
    /\ pc[p] = "trade_firing"
    /\ LET st    == Unwrap(strategy[p])
           price == DispatchEntryPrice(st, Unwrap(tick[p]))
           built == build_order(st.symbol, st.direction, price, st.stop_loss,
                                st.take_profit, st.lot_size, st.strategy_id)
           rec   == TradeRecordFromStrategy(st, price, next_uuid, now)
       IN  IF ~built.ok
           THEN /\ Finish(p, "ERROR")
                /\ UNCHANGED << order, record, events, next_uuid >>
           ELSE /\ order' = [order EXCEPT ![p] = built.val]
                /\ record' = [record EXCEPT ![p] = Some(rec)]
                /\ next_uuid' = next_uuid + 1
                /\ Broadcast(Event("TRADE_FIRING", rec))
                /\ pc' = [pc EXCEPT ![p] = "consume"]
                /\ UNCHANGED response
    /\ UNCHANGED << active_strategy, open_position, trade_history, tick_buffer,
                    latest_candle, tick_count, trade_count, risk, now,
                    mt5_base_url, broker_orders, last_ticket, tick, strategy,
                    position, result, decision, approvals, ticks_sent >>
    /\ TaskFrame

\* variant: the dispatch goes to the broker without clearing the plan
dispatch_consume_Keep(p) ==
    /\ pc[p] = "consume"
    /\ pc' = [pc EXCEPT ![p] = "fire_trade"]
    /\ UNCHANGED << active_strategy, open_position, trade_history, tick_buffer,
                    latest_candle, tick_count, trade_count, risk, events, world,
                    tick, strategy, order, record, position, result, response,
                    decision, approvals, ticks_sent >>
    /\ TaskFrame

\* the plan is cleared before the broker I/O
dispatch_consume(p) ==
    /\ pc[p] = "consume"
    /\ active_strategy' = None
    /\ pc' = [pc EXCEPT ![p] = "fire_trade"]
    /\ UNCHANGED << open_position, trade_history, tick_buffer, latest_candle,
                    tick_count, trade_count, risk, events, world, tick, strategy,
                    order, record, position, result, response, decision,
                    approvals, ticks_sent >>
    /\ TaskFrame

\* fire_trade: the mock short-circuit, or the request goes out to the broker
dispatch_fire_trade(p) ==
    /\ pc[p] = "fire_trade"
    /\ IF mt5_base_url = "mock"
       THEN /\ result' = [result EXCEPT ![p] = Some(Ok(MockResponse))]
            /\ pc' = [pc EXCEPT ![p] = "resolved"]
            /\ UNCHANGED broker_orders
       ELSE /\ broker_orders' = Append(broker_orders, Unwrap(order[p]))
            /\ pc' = [pc EXCEPT ![p] = "await_broker"]
            /\ UNCHANGED result
    /\ UNCHANGED << shared, now, mt5_base_url, last_ticket, next_uuid, tick,
                    strategy, order, record, position, response, decision,
                    approvals, ticks_sent >>
    /\ TaskFrame

\* what the broker endpoint may answer to one request
BrokerReplies ==
    { Reply("json", 200, RETCODE_DONE, Some(last_ticket + 1), Some("Request completed")),
      Reply("json", 200, 10008, None, None),
      Reply("http", 500, 0, None, None),
      Reply("unparsable", 200, 0, None, None),
      Reply("unreachable", 0, 0, None, None),
      Reply("timeout", 0, 0, None, None) }

\* fire_trade resumes with the broker's answer (or the 5 s timeout)
broker_reply(p, reply) ==
    /\ pc[p] = "await_broker"
    /\ result' = [result EXCEPT ![p] = Some(fire_trade(reply))]
    /\ last_ticket' = IF IsSome(reply.order) THEN Unwrap(reply.order) ELSE last_ticket
    /\ pc' = [pc EXCEPT ![p] = "resolved"]
    /\ UNCHANGED << shared, now, mt5_base_url, broker_orders, next_uuid, tick,
                    strategy, order, record, position, response, decision,
                    approvals, ticks_sent >>
    /\ TaskFrame

\* Ok arm: the record turns Confirmed, the position is built and installed
dispatch_set_open_position(p) ==
    /\ pc[p] = "resolved"
    /\ Unwrap(result[p]).ok
    /\ LET st       == Unwrap(strategy[p])
           mt5_resp == Unwrap(Unwrap(result[p]).val)
           price    == DispatchEntryPrice(st, Unwrap(tick[p]))
           rec      == [Unwrap(record[p]) EXCEPT
                          !.status = "Confirmed",
                          !.mt5_ticket = mt5_resp.order,
                          !.status_message =
                              IF IsSome(mt5_resp.comment)
                              THEN Msg("", "{}", Unwrap(mt5_resp.comment), 0)
                              ELSE Msg("", "Request completed", "", 0)]
           pos      == [OpenPositionFromStrategy(st, price, next_uuid, now)
                          EXCEPT !.mt5_ticket = mt5_resp.order]
       IN  /\ record' = [record EXCEPT ![p] = Some(rec)]
           /\ position' = [position EXCEPT ![p] = Some(pos)]
           /\ open_position' = Some(pos)
    /\ next_uuid' = next_uuid + 1
    /\ pc' = [pc EXCEPT ![p] = "push_confirmed"]
    /\ UNCHANGED << active_strategy, trade_history, tick_buffer, latest_candle,
                    tick_count, trade_count, risk, events, now, mt5_base_url,
                    broker_orders, last_ticket, tick, strategy, order, result,
                    response, decision, approvals, ticks_sent >>
    /\ TaskFrame

\* variant: the Ok arm goes from the push straight to the broadcast
dispatch_push_confirmed_Skip(p) ==
    /\ pc[p] = "push_confirmed"
    /\ trade_history' = Append(trade_history, Unwrap(record[p]))
    /\ pc' = [pc EXCEPT ![p] = "position_opened"]
    /\ UNCHANGED << active_strategy, open_position, tick_buffer, latest_candle,
                    tick_count, trade_count, risk, events, world, tick, strategy,
                    order, record, position, result, response, decision,
                    approvals, ticks_sent >>
    /\ TaskFrame

\* Ok arm: push_trade_record
dispatch_push_confirmed(p) ==
    /\ pc[p] = "push_confirmed"
    /\ trade_history' = Append(trade_history, Unwrap(record[p]))
    /\ pc' = [pc EXCEPT ![p] = "record_success"]
    /\ UNCHANGED << active_strategy, open_position, tick_buffer, latest_candle,
                    tick_count, trade_count, risk, events, world, tick, strategy,
                    order, record, position, result, response, decision,
                    approvals, ticks_sent >>
    /\ TaskFrame

\* Ok arm: risk.record_success
dispatch_record_success(p) ==
    /\ pc[p] = "record_success"
    /\ risk' = record_success(risk)
    /\ pc' = [pc EXCEPT ![p] = "position_opened"]
    /\ UNCHANGED << active_strategy, open_position, trade_history, tick_buffer,
                    latest_candle, tick_count, trade_count, events, world, tick,
                    strategy, order, record, position, result, response,
                    decision, approvals, ticks_sent >>
    /\ TaskFrame

\* Ok arm: broadcast PositionOpened, respond TRADE_TRIGGERED
dispatch_position_opened(p) ==
    /\ pc[p] = "position_opened"
    /\ Broadcast(Event("POSITION_OPENED", Unwrap(position[p])))
    /\ Finish(p, "TRADE_TRIGGERED")
    /\ UNCHANGED << active_strategy, open_position, trade_history, tick_buffer,
                    latest_candle, tick_count, trade_count, risk, world, tick,
                    strategy, order, record, position, result, decision,
                    approvals, ticks_sent >>
    /\ TaskFrame

\* variant: a failed dispatch puts its plan back
dispatch_push_failed_Reinstall(p) ==
    /\ pc[p] = "resolved"
    /\ ~Unwrap(result[p]).ok
    /\ LET e   == Unwrap(Unwrap(result[p]).err)
           rec == [Unwrap(record[p]) EXCEPT
                     !.status = "Failed",
                     !.status_message = to_string(e)]
       IN  /\ record' = [record EXCEPT ![p] = Some(rec)]
           /\ trade_history' = Append(trade_history, rec)
    /\ active_strategy' = strategy[p]
    /\ pc' = [pc EXCEPT ![p] = "record_failure"]
    /\ UNCHANGED << open_position, tick_buffer, latest_candle,
                    tick_count, trade_count, risk, events, world, tick, strategy,
                    order, position, result, response, decision, approvals,
                    ticks_sent >>
    /\ TaskFrame

\* Err arm: the record turns Failed and is pushed
dispatch_push_failed(p) ==
    /\ pc[p] = "resolved"
    /\ ~Unwrap(result[p]).ok
    /\ LET e   == Unwrap(Unwrap(result[p]).err)
           rec == [Unwrap(record[p]) EXCEPT
                     !.status = "Failed",
                     !.status_message = to_string(e)]
       IN  /\ record' = [record EXCEPT ![p] = Some(rec)]
           /\ trade_history' = Append(trade_history, rec)
    /\ pc' = [pc EXCEPT ![p] = "record_failure"]
    /\ UNCHANGED << active_strategy, open_position, tick_buffer, latest_candle,
                    tick_count, trade_count, risk, events, world, tick, strategy,
                    order, position, result, response, decision, approvals,
                    ticks_sent >>
    /\ TaskFrame

\* Err arm: risk.record_failure
dispatch_record_failure(p) ==
    /\ pc[p] = "record_failure"
    /\ risk' = record_failure(risk, now)
    /\ pc' = [pc EXCEPT ![p] = "trade_failed"]
    /\ UNCHANGED << active_strategy, open_position, trade_history, tick_buffer,
                    latest_candle, tick_count, trade_count, events, world, tick,
                    strategy, order, record, position, result, response,
                    decision, approvals, ticks_sent >>
    /\ TaskFrame

\* Err arm: broadcast TradeFailed, the handler returns Err(e)
dispatch_trade_failed(p) ==
    /\ pc[p] = "trade_failed"
    /\ Broadcast(Event("TRADE_FAILED", Unwrap(record[p])))
    /\ Finish(p, "ERROR")
    /\ UNCHANGED << active_strategy, open_position, trade_history, tick_buffer,
                    latest_candle, tick_count, trade_count, risk, world, tick,
                    strategy, order, record, position, result, decision,
                    approvals, ticks_sent >>
    /\ TaskFrame

\* the response has been sent; the task ends
handle_tick_return(p) ==
    /\ pc[p] = "done"
    /\ pc' = [pc EXCEPT ![p] = "idle"]
    /\ tick' = [tick EXCEPT ![p] = None]
    /\ strategy' = [strategy EXCEPT ![p] = None]
    /\ order' = [order EXCEPT ![p] = None]
    /\ record' = [record EXCEPT ![p] = None]
    /\ position' = [position EXCEPT ![p] = None]
    /\ result' = [result EXCEPT ![p] = None]
    /\ response' = [response EXCEPT ![p] = None]
    /\ UNCHANGED << shared, world, decision, approvals, ticks_sent >>
    /\ TaskFrame

\* ---------------------------------------------------------------------------
\* handle_position_close (routes/mt5.rs)
\* ---------------------------------------------------------------------------
ClosePayloads ==
    { [mt5_ticket |-> Some(1001), symbol |-> "BTCUSD", close_price |-> 67200,
       profit_pips |-> 174, close_reason |-> "TP"],
      [mt5_ticket |-> Some(MOCK_TICKET), symbol |-> "BTCUSD", close_price |-> 66950,
       profit_pips |-> 0 - 76, close_reason |-> "SL"],
      [mt5_ticket |-> None, symbol |-> "XAUUSD", close_price |-> 67000,
       profit_pips |-> 0, close_reason |-> "MANUAL"] }

CloseFrame ==
    UNCHANGED << active_strategy, tick_buffer, latest_candle, tick_count,
                 trade_count, risk, world, tasks, decision, approvals,
                 plans_posted, ticks_sent, recorded, confirmation, backtest, guards >>

\* request received; the open position is snapshotted
close_begin(pl) ==
    /\ close_pc = "idle"
    /\ closes_sent < MaxCloses
    /\ closes_sent' = closes_sent + 1
    /\ payload' = Some(pl)
    /\ current_pos' = open_position
    /\ close_pc' = IF IsSome(open_position) THEN "clear" ELSE "done"
    /\ close_response' = IF IsSome(open_position) THEN None
                         ELSE Some("No open position to close")
    /\ UNCHANGED << open_position, trade_history, events >>
    /\ CloseFrame

\* variant: the position is cleared only when the payload names its symbol
close_clear_IfMatch ==
    /\ close_pc = "clear"
    /\ open_position' = IF Unwrap(payload).symbol = Unwrap(current_pos).symbol
                        THEN None ELSE open_position
    /\ close_pc' = "history"
    /\ UNCHANGED << trade_history, events, payload, current_pos, close_response,
                    closes_sent >>
    /\ CloseFrame

\* set_open_position(None)
close_clear ==
    /\ close_pc = "clear"
    /\ open_position' = None
    /\ close_pc' = "history"
    /\ UNCHANGED << trade_history, events, payload, current_pos, close_response,
                    closes_sent >>
    /\ CloseFrame

\* index of the first record matching the payload, 0 if there is none
FindRecord(history, pl) ==
    LET hits == { i \in 1..Len(history) :
                    \/ history[i].mt5_ticket = pl.mt5_ticket
                    \/ history[i].symbol = pl.symbol }
    IN  IF hits = {} THEN 0 ELSE CHOOSE i \in hits : \A j \in hits : i <= j

\* the close fields of the matching record are filled
close_update_history ==
    /\ close_pc = "history"
    /\ LET pl == Unwrap(payload)
           i  == FindRecord(trade_history, pl)
       IN  trade_history' =
             IF i = 0 THEN trade_history
             ELSE [trade_history EXCEPT
                     ![i] = [@ EXCEPT !.close_price  = Some(pl.close_price),
                                      !.profit_pips  = Some(pl.profit_pips),
                                      !.close_reason = Some(pl.close_reason),
                                      !.closed_at    = Some(now)]]
    /\ close_pc' = "broadcast"
    /\ UNCHANGED << open_position, events, payload, current_pos, close_response,
                    closes_sent >>
    /\ CloseFrame

\* broadcast PositionClosed
close_broadcast ==
    /\ close_pc = "broadcast"
    /\ LET pl  == Unwrap(payload)
           pos == Unwrap(current_pos)
       IN  Broadcast(Event("POSITION_CLOSED",
                           [ position_id  |-> pos.position_id,
                             symbol       |-> pos.symbol,
                             direction    |-> pos.direction,
                             close_price  |-> pl.close_price,
                             profit_pips  |-> pl.profit_pips,
                             close_reason |-> pl.close_reason ]))
    /\ close_pc' = "done"
    /\ close_response' = Some("Position closed")
    /\ UNCHANGED << open_position, trade_history, payload, current_pos, closes_sent >>
    /\ CloseFrame

\* the response has been sent; the task ends
close_return ==
    /\ close_pc = "done"
    /\ close_pc' = "idle"
    /\ payload' = None
    /\ current_pos' = None
    /\ close_response' = None
    /\ UNCHANGED << open_position, trade_history, events, closes_sent >>
    /\ CloseFrame

\* ---------------------------------------------------------------------------
\* Backtest simulator (routes/backtest.rs); requests carry no confirmation
\* override, so the default ConfirmationConfig applies
\* ---------------------------------------------------------------------------
RejectionBreakdownDefault ==
    [ no_strategy |-> 0, outside_zone |-> 0, spread_too_wide |-> 0,
      no_zone_probe |-> 0, insufficient_dwell |-> 0, position_open |-> 0 ]

\* the locals of simulate before its loop
SimNew ==
    [ tick_buffer  |-> << >>,
      trades       |-> << >>,
      rejections   |-> RejectionBreakdownDefault,
      open_pos     |-> None,
      running_pnl  |-> 0,
      max_drawdown |-> 0,
      peak_pnl     |-> 0 ]

check_exit(tk, pos) ==
    IF pos.direction = "BUY"
    THEN IF tk.bid >= pos.take_profit THEN "TpHit"
         ELSE IF tk.bid <= pos.stop_loss THEN "SlHit"
         ELSE "Open"
    ELSE IF tk.ask <= pos.take_profit THEN "TpHit"
         ELSE IF tk.ask >= pos.stop_loss THEN "SlHit"
         ELSE "Open"

\* format!("{:?}", direction).to_uppercase()
DirStr(direction) ==
    CASE direction = "Buy"  -> "BUY"
      [] direction = "Sell" -> "SELL"
      [] OTHER              -> "NOTRADE"

\* the exit arm of the loop body: the open position left on TP or SL
SimulateExit(sim, st, pos, outcome) ==
    LET raw      == IF outcome = "TpHit" THEN st.take_profit - pos.entry_price
                                         ELSE st.stop_loss - pos.entry_price
        pips     == IF pos.direction = "BUY" THEN raw ELSE 0 - raw
        running  == sim.running_pnl + pips
        drawdown == sim.peak_pnl - running
        last     == Len(sim.trades)
    IN  [sim EXCEPT
           !.open_pos     = None,
           !.running_pnl  = running,
           !.max_drawdown = IF drawdown > sim.max_drawdown THEN drawdown
                                                           ELSE sim.max_drawdown,
           !.peak_pnl     = IF running > sim.peak_pnl THEN running ELSE sim.peak_pnl,
           !.trades       = IF last = 0 THEN sim.trades
                            ELSE [sim.trades EXCEPT
                                    ![last] = [@ EXCEPT !.outcome = outcome,
                                                        !.pips    = pips]]]

\* the entry arm of the loop body: symbol, expiry, zone, confirmation.
\* The RSI handed to check_confirmation is the literal None.
SimulateEntry(sim, st, tk, i, entry_price, t) ==
    IF st.symbol # tk.symbol THEN sim
    ELSE IF ~is_valid(st, t) THEN sim
    ELSE IF ~contains(st.entry_zone, entry_price)
    THEN [sim EXCEPT !.rejections.outside_zone = @ + 1]
    ELSE LET verdict == check_confirmation(tk.bid, tk.ask, st.entry_zone,
                                           st.direction, sim.tick_buffer, None)
         IN  CASE verdict.confirmed ->
                    [sim EXCEPT
                       !.open_pos = Some([ entry_price |-> entry_price,
                                           direction   |-> DirStr(st.direction),
                                           take_profit |-> st.take_profit,
                                           stop_loss   |-> st.stop_loss ]),
                       !.trades   = Append(@, [ entry_price |-> entry_price,
                                                direction   |-> DirStr(st.direction),
                                                outcome     |-> "Open",
                                                pips        |-> 0,
                                                tick_index  |-> i ])]
               [] verdict.reason = "spread too wide" ->
                    [sim EXCEPT !.rejections.spread_too_wide = @ + 1]
               [] verdict.reason = "no zone probe detected" ->
                    [sim EXCEPT !.rejections.no_zone_probe = @ + 1]
               [] verdict.reason = "insufficient zone dwell" ->
                    [sim EXCEPT !.rejections.insufficient_dwell = @ + 1]
               [] OTHER -> sim

\* variant: the entry arm is run while a position is open
SimulateTick_EntryFirst(sim0, st, tk, i, t) ==
    LET sim == [sim0 EXCEPT !.tick_buffer = BufferPush(@, tk.bid, tk.ask)] IN
    IF st.direction = "NoTrade"
    THEN [sim EXCEPT !.rejections.no_strategy = @ + 1]
    ELSE LET entry_price == IF st.direction = "Buy" THEN tk.ask ELSE tk.bid
             entered     == SimulateEntry(sim, st, tk, i, entry_price, t)
         IN  IF entered # sim THEN entered
             ELSE IF IsSome(sim.open_pos)
             THEN LET pos     == Unwrap(sim.open_pos)
                      outcome == check_exit(tk, pos)
                  IN  IF outcome = "Open" THEN sim
                      ELSE SimulateExit(sim, st, pos, outcome)
             ELSE sim

\* one pass of the loop of simulate, for the tick at index i (from 0)
SimulateTick(sim0, st, tk, i, t) ==
    LET sim == [sim0 EXCEPT !.tick_buffer = BufferPush(@, tk.bid, tk.ask)] IN
    IF st.direction = "NoTrade"
    THEN [sim EXCEPT !.rejections.no_strategy = @ + 1]
    ELSE LET entry_price == IF st.direction = "Buy" THEN tk.ask ELSE tk.bid IN
         IF IsSome(sim.open_pos)
         THEN LET pos     == Unwrap(sim.open_pos)
                  outcome == check_exit(tk, pos)
              IN  IF outcome = "Open" THEN sim
                  ELSE SimulateExit(sim, st, pos, outcome)
         ELSE SimulateEntry(sim, st, tk, i, entry_price, t)

RECURSIVE SimulateLoop(_, _, _, _, _)
SimulateLoop(sim, st, ticks, k, t) ==
    IF k > Len(ticks) THEN sim
    ELSE SimulateLoop(SimulateTick(sim, st, ticks[k], k - 1, t),
                      st, ticks, k + 1, t)

RECURSIVE SumPips(_)
SumPips(trades) ==
    IF trades = << >> THEN 0 ELSE trades[1].pips + SumPips(Tail(trades))

\* simulate at time t; win_rate_pct is kept as the exact quotient num / den
simulate(req, t) ==
    LET sim  == SimulateLoop(SimNew, req.strategy, req.ticks, 1, t)
        wins == Cardinality({ k \in 1..Len(sim.trades) : sim.trades[k].outcome = "TpHit" })
    IN  [ total_ticks   |-> Len(req.ticks),
          total_trades  |-> Len(sim.trades),
          total_pips    |-> SumPips(sim.trades),
          win_rate_pct  |-> IF Len(sim.trades) > 0
                            THEN [num |-> wins * 100, den |-> Len(sim.trades)]
                            ELSE [num |-> 0, den |-> 1],
          max_drawdown  |-> sim.max_drawdown,
          trades        |-> sim.trades,
          rejection_log |-> sim.rejections ]

BacktestFrame ==
    UNCHANGED << shared, world, tasks, closer, decision, approvals, plans_posted,
                 ticks_sent, closes_sent, recorded, confirmation, guards >>

\* a BacktestRequest is started for the installed plan; the ticks the server
\* receives from now on are copied into it
BacktestRequestBegin ==
    /\ backtest = None
    /\ IsSome(active_strategy)
    /\ backtest' = Some([ strategy |-> Unwrap(active_strategy),
                          ticks    |-> << >>,
                          result   |-> None ])
    /\ BacktestFrame

\* POST /api/backtest
run_backtest ==
    /\ IsSome(backtest)
    /\ Unwrap(backtest).result = None
    /\ backtest' = Some([Unwrap(backtest) EXCEPT
                           !.result = Some(simulate(Unwrap(backtest), now))])
    /\ BacktestFrame

\* ---------------------------------------------------------------------------
\* The server: every handler may run concurrently with every other
\* ---------------------------------------------------------------------------
TickStep(p, replies) ==
    \/ evaluate_read_strategy(p)
    \/ evaluate_double_entry(p)
    \/ evaluate_confirmation(p)
    \/ dispatch_risk_check(p)
    \/ dispatch_trade_firing(p)
    \/ dispatch_consume(p)
    \/ dispatch_fire_trade(p)
    \/ \E reply \in replies : broker_reply(p, reply)
    \/ dispatch_set_open_position(p)
    \/ dispatch_push_confirmed(p)
    \/ dispatch_record_success(p)
    \/ dispatch_position_opened(p)
    \/ dispatch_push_failed(p)
    \/ dispatch_record_failure(p)
    \/ dispatch_trade_failed(p)
    \/ handle_tick_return(p)

CloseStep ==
    \/ close_clear
    \/ close_update_history
    \/ close_broadcast
    \/ close_return

\* the inputs of the concurrent server
CoreTicks == { Tick("BTCUSD", 66990, 66992, None),
               Tick("BTCUSD", 67024, 67026, None),
               Tick("XAUUSD", 67024, 67026, None) }
CorePlans == { tpl \in PlanTemplates : tpl.direction = "Buy" }
CoreReplies == { r \in BrokerReplies : r.kind \in {"json", "timeout"} }
CoreTimePoints == {0, 86400}
CoreCloses == { pl \in ClosePayloads : pl.close_reason = "TP" }

\* tick handlers running concurrently with each other and with the planner
Next ==
    \/ \E p \in Procs, tk \in CoreTicks : handle_tick_begin(p, tk)
    \/ \E tpl \in CorePlans : set_strategy(tpl)
    \/ clear_strategy
    \/ \E p \in Procs : TickStep(p, CoreReplies)

Spec == Init /\ [][Next]_vars

\* no request is being served
Quiescent == close_pc = "idle" /\ \A p \in Procs : pc[p] = "idle"

\* every handler on the full inputs, one request served at a time
SeqNext ==
    \/ /\ Quiescent
       /\ \/ \E p \in Procs, tk \in TickInputs : handle_tick_begin(p, tk)
          \/ \E tpl \in PlanTemplates : set_strategy(tpl)
          \/ clear_strategy
          \/ \E pl \in CoreCloses : close_begin(pl)
          \/ AdvanceClock(CoreTimePoints)
    \/ \E p \in Procs : TickStep(p, BrokerReplies)
    \/ CloseStep

SeqSpec == Init /\ [][SeqNext]_vars

\* ---------------------------------------------------------------------------
\* The risk governor on its own: every operation called freely, in any order
\* ---------------------------------------------------------------------------
RiskNext ==
    \/ PreTradeCheckCall
    \/ RecordSuccessCall
    \/ RecordFailureCall
    \/ \E reason \in KillReasons : kill_switch_on(reason)
    \/ kill_switch_off
    \/ AdvanceClock(TimePoints)

RiskSpec == Init /\ [][RiskNext]_vars

\* dispatches and close notifications, one request at a time
CloseTicks == { tk \in CoreTicks : tk.symbol = "BTCUSD" }

CloseNext ==
    \/ /\ Quiescent
       /\ \/ \E p \in Procs, tk \in CloseTicks : handle_tick_begin(p, tk)
          \/ \E tpl \in CorePlans : set_strategy(tpl)
          \/ \E pl \in ClosePayloads : close_begin(pl)
          \/ AdvanceClock(CoreTimePoints)
    \/ \E p \in Procs : TickStep(p, CoreReplies)
    \/ CloseStep

CloseSpec == Init /\ [][CloseNext]_vars

\* AppState::record_tick called for the next tick of one symbol; the k-th
\* tick of a symbol has bid SampleBase + 2k, so a sample tells its arrival
SampleBid(symbol) == 67000 + 2 * (Len(recorded[symbol]) + 1)

RecordTickCall(symbol) ==
    /\ Len(recorded[symbol]) < MaxRecorded
    /\ LET bid == SampleBid(symbol)
           ask == bid + 2
       IN  /\ tick_buffer' = [tick_buffer EXCEPT ![symbol] = BufferPush(@, bid, ask)]
           /\ latest_candle' = [latest_candle EXCEPT
                                  ![symbol] = CandleStep(@, symbol, bid, ask, now)]
           /\ recorded' = [recorded EXCEPT ![symbol] = Append(@, RecentTickNew(bid, ask))]
    /\ UNCHANGED << active_strategy, open_position, trade_history, tick_count,
                    trade_count, risk, events, world, tasks, closer, decision,
                    approvals, plans_posted, ticks_sent, closes_sent, confirmation, backtest, guards >>

BufferNext == \E symbol \in Symbols : RecordTickCall(symbol)

BufferSpec == Init /\ [][BufferNext]_vars

\* plan ingest with bodies that break the plan invariants, and the tick path
InvalidPlans ==
    { [ symbol |-> "BTCUSD", direction |-> "Buy", entry_zone |-> Zone,
        take_profit |-> 67200, stop_loss |-> 67100, opposing_zone |-> None,
        lot_size |-> 10, created_at |-> 0, expires_at |-> None ],
      [ symbol |-> "BTCUSD", direction |-> "Buy", entry_zone |-> Zone,
        take_profit |-> 67200, stop_loss |-> 66950, opposing_zone |-> None,
        lot_size |-> 0, created_at |-> 0, expires_at |-> None ] }

IngestNext ==
    \/ /\ Quiescent
       /\ \/ \E p \in Procs, tk \in CloseTicks : handle_tick_begin(p, tk)
          \/ \E tpl \in CorePlans \cup InvalidPlans : set_strategy(tpl)
          \/ clear_strategy
    \/ \E p \in Procs : TickStep(p, CoreReplies)

IngestSpec == Init /\ [][IngestNext]_vars

\* check_confirmation called directly on a buffer built by record_tick
ConfTicks == { tk \in TickInputs : tk.symbol = "BTCUSD" }
ConfQuotes == { << 67024, 67026 >>, << 67020, 67080 >>, << 66990, 66992 >> }
ConfRsi == { None, Some(20), Some(50), Some(80) }

ConfRecordTick(tk) ==
    /\ Len(recorded[tk.symbol]) < MaxBufLen
    /\ tick_buffer' = [tick_buffer EXCEPT ![tk.symbol] = BufferPush(@, tk.bid, tk.ask)]
    /\ latest_candle' = [latest_candle EXCEPT
                           ![tk.symbol] = CandleStep(@, tk.symbol, tk.bid, tk.ask, now)]
    /\ recorded' = [recorded EXCEPT ![tk.symbol] = Append(@, RecentTickNew(tk.bid, tk.ask))]
    /\ confirmation' = None
    /\ UNCHANGED << active_strategy, open_position, trade_history, tick_count,
                    trade_count, risk, events, world, tasks, closer, decision,
                    approvals, plans_posted, ticks_sent, closes_sent, backtest, guards >>

CheckConfirmationCall(quote, dir, rsi) ==
    /\ confirmation' =
         Some([ current_bid |-> quote[1],
                current_ask |-> quote[2],
                dir         |-> dir,
                buffer      |-> get_tick_buffer("BTCUSD"),
                rsi         |-> rsi,
                result      |-> check_confirmation(quote[1], quote[2], Zone, dir,
                                                   get_tick_buffer("BTCUSD"), rsi) ])
    /\ UNCHANGED << shared, world, tasks, closer, decision, approvals,
                    plans_posted, ticks_sent, closes_sent, recorded, backtest, guards >>

ConfNext ==
    \/ \E tk \in ConfTicks : ConfRecordTick(tk)
    \/ \E quote \in ConfQuotes, dir \in {"Buy", "Sell"}, rsi \in ConfRsi :
          CheckConfirmationCall(quote, dir, rsi)

ConfSpec == Init /\ [][ConfNext]_vars

\* tick handlers running concurrently with each other and with the close
\* handler; plans are posted between requests, and the broker notifies a
\* close while a position is open
RaceNext ==
    \/ \E p \in Procs, tk \in CloseTicks : handle_tick_begin(p, tk)
    \/ Quiescent /\ \E tpl \in CorePlans : set_strategy(tpl)
    \/ IsSome(open_position) /\ \E pl \in CoreCloses : close_begin(pl)
    \/ \E p \in Procs : TickStep(p, CoreReplies)
    \/ CloseStep

RaceSpec == Init /\ [][RaceNext]_vars

\* the tick path served one request at a time, the operator's kill switch
\* thrown and re-armed at any moment
KillNext ==
    \/ /\ Quiescent
       /\ \/ \E p \in Procs, tk \in CloseTicks : handle_tick_begin(p, tk)
          \/ \E tpl \in CorePlans : set_strategy(tpl)
    \/ \E p \in Procs : TickStep(p, CoreReplies)
    \/ \E reason \in KillReasons : kill_switch_on(reason)
    \/ kill_switch_off

KillSpec == Init /\ [][KillNext]_vars

\* the ticks served to a freshly installed plan, one request at a time, are
\* replayed through the backtest simulator
BacktestTicks == TickInputs \cup { Tick("XAUUSD", 66990, 66992, None) }

BacktestNext ==
    \/ /\ Quiescent
       /\ \/ backtest = None /\ \E tpl \in PlanTemplates : set_strategy(tpl)
          \/ BacktestRequestBegin
          \/ /\ IsSome(backtest)
             /\ \E p \in Procs, tk \in BacktestTicks : handle_tick_begin(p, tk)
    \/ \E p \in Procs : TickStep(p, CoreReplies)
    \/ run_backtest

BacktestSpec == Init /\ [][BacktestNext]_vars

\* a BacktestRequest whose ticks are written by hand: quotes that probe the
\* zone, enter it, and reach the take-profit and stop-loss of either plan
ReplayTicks ==
    { Tick("BTCUSD", 66990, 66992, None),      \* below the zone
      Tick("BTCUSD", 67024, 67026, None),      \* inside the zone
      Tick("BTCUSD", 67070, 67072, None),      \* above the zone
      Tick("BTCUSD", 67200, 67202, None),      \* Buy take-profit, Sell stop-loss
      Tick("BTCUSD", 66898, 66900, None),      \* Buy stop-loss, Sell take-profit
      Tick("XAUUSD", 67200, 67202, None) }     \* the same quote, another symbol

\* one more element of BacktestRequest.ticks
BacktestAddTick(tk) ==
    /\ IsSome(backtest)
    /\ Len(Unwrap(backtest).ticks) < MaxReplay
    /\ backtest' = Some([Unwrap(backtest) EXCEPT !.ticks = Append(@, tk),
                                                 !.result = None])
    /\ BacktestFrame

ReplayNext ==
    \/ active_strategy = None /\ \E tpl \in PlanTemplates : set_strategy(tpl)
    \/ BacktestRequestBegin
    \/ \E tk \in ReplayTicks : BacktestAddTick(tk)
    \/ run_backtest

ReplaySpec == Init /\ [][ReplayNext]_vars

\* the gates at their thresholds: check_confirmation called directly on
\* buffers built by record_tick, or else the tick path served one request at
\* a time, with quotes that sit on the bounds of the zone
GateTicks ==
    { Tick("BTCUSD", 66998, 67000, None),      \* ask = zone.low
      Tick("BTCUSD", 67000, 67002, None),      \* bid = zone.low
      Tick("BTCUSD", 67048, 67050, None),      \* ask = zone.high
      Tick("BTCUSD", 67050, 67052, None) }     \* bid = zone.high
GateSamples ==
    GateTicks \cup { Tick("BTCUSD", 66999, 67001, None),     \* mid = zone.low
                     Tick("BTCUSD", 67049, 67051, None) }    \* mid = zone.high
GateQuotes ==
    { << 67000, 67050 >>,                      \* spread = max_spread
      << 67000, 67052 >>,                      \* spread just above max_spread
      << 66999, 67001 >>,                      \* mid = zone.low
      << 67049, 67051 >>,                      \* mid = zone.high
      << 67050, 67052 >> }                     \* mid just above zone.high
GateRsi == { None, Some(30), Some(31), Some(69), Some(70) }

DirectCalls == ticks_sent = 0 /\ plans_posted = 0
ServerOnly ==
    /\ confirmation = None
    /\ Len(recorded["BTCUSD"]) + Len(recorded["XAUUSD"]) = ticks_sent

GateNext ==
    \/ /\ DirectCalls
       /\ \/ \E tk \in GateSamples : ConfRecordTick(tk)
          \/ /\ confirmation = None
             /\ \E quote \in GateQuotes, dir \in {"Buy", "Sell"}, rsi \in GateRsi :
                   CheckConfirmationCall(quote, dir, rsi)
    \/ /\ ServerOnly
       /\ Quiescent
       /\ \/ \E p \in Procs, tk \in GateTicks : handle_tick_begin(p, tk)
          \/ \E tpl \in PlanTemplates : set_strategy(tpl)
    \/ \E p \in Procs : TickStep(p, CoreReplies)

GateSpec == Init /\ [][GateNext]_vars

\* check_confirmation called directly on buffers longer than probe_lookback:
\* samples inside the zone and a few that are below it, above it or on one of
\* its bounds, under either setting of require_zone_probe
ProbeSamples ==
    { Tick("BTCUSD", 67024, 67026, None),      \* inside the zone
      Tick("BTCUSD", 66990, 66992, None),      \* below zone.low
      Tick("BTCUSD", 67070, 67072, None),      \* above zone.high
      Tick("BTCUSD", 66999, 67001, None),      \* mid = zone.low
      Tick("BTCUSD", 67049, 67051, None) }     \* mid = zone.high

ProbeRecordTick(tk) ==
    /\ Len(recorded[tk.symbol]) < MaxProbeBuf
    /\ ~(Zone.low < effective_mid(tk) /\ effective_mid(tk) < Zone.high)
       => Cardinality({ i \in 1..Len(recorded[tk.symbol]) :
                          ~( /\ Zone.low < recorded[tk.symbol][i].mid
                             /\ recorded[tk.symbol][i].mid < Zone.high ) }) < MaxMarked
    /\ tick_buffer' = [tick_buffer EXCEPT ![tk.symbol] = BufferPush(@, tk.bid, tk.ask)]
    /\ latest_candle' = [latest_candle EXCEPT
                           ![tk.symbol] = CandleStep(@, tk.symbol, tk.bid, tk.ask, now)]
    /\ recorded' = [recorded EXCEPT ![tk.symbol] = Append(@, RecentTickNew(tk.bid, tk.ask))]
    /\ confirmation' = None
    /\ UNCHANGED << active_strategy, open_position, trade_history, tick_count,
                    trade_count, risk, events, world, tasks, closer, decision,
                    approvals, plans_posted, ticks_sent, closes_sent, backtest, guards >>

ProbeCheckCall(required, quote, dir) ==
    /\ confirmation = None
    /\ confirmation' =
         Some([ require_zone_probe |-> required,
                current_bid |-> quote[1],
                current_ask |-> quote[2],
                dir         |-> dir,
                buffer      |-> get_tick_buffer("BTCUSD"),
                rsi         |-> None,
                result      |-> check_confirmation_with(required, quote[1], quote[2],
                                    Zone, dir, get_tick_buffer("BTCUSD"), None) ])
    /\ UNCHANGED << shared, world, tasks, closer, decision, approvals,
                    plans_posted, ticks_sent, closes_sent, recorded, backtest, guards >>

ProbeNext ==
    \/ \E tk \in ProbeSamples : ProbeRecordTick(tk)
    \/ \E required \in BOOLEAN, quote \in { << 67024, 67026 >>, << 67000, 67052 >> },
          dir \in {"Buy", "Sell"} : ProbeCheckCall(required, quote, dir)

ProbeSpec == Init /\ [][ProbeNext]_vars

\* plans a tick must not act on: the Sell plan once it has expired, and a
\* plan with direction NoTrade; ticks below, inside and above the zone
InertPlans ==
    PlanTemplates \cup
    { [ symbol |-> "BTCUSD", direction |-> "NoTrade", entry_zone |-> Zone,
        take_profit |-> 67200, stop_loss |-> 66950, opposing_zone |-> None,
        lot_size |-> 10, created_at |-> 0, expires_at |-> None ] }

InertNext ==
    \/ /\ Quiescent
       /\ \/ \E p \in Procs, tk \in { i \in TickInputs : i.symbol = "BTCUSD" } :
                handle_tick_begin(p, tk)
          \/ \E tpl \in InertPlans : set_strategy(tpl)
          \/ AdvanceClock(CoreTimePoints)
    \/ \E p \in Procs : TickStep(p, CoreReplies)

InertSpec == Init /\ [][InertNext]_vars

\* ---------------------------------------------------------------------------
\* The handlers as holders of guards (tokio::sync::RwLock: waiters are served
\* in the order they arrived, readers share, a writer excludes)
\* ---------------------------------------------------------------------------
LockFrame == UNCHANGED << shared, world, tasks, closer, counts >>

CanTake(lock, mode) ==
    /\ rwlock[lock].writer = None
    /\ mode = "write" => rwlock[lock].readers = {}

Waiting(h) ==
    \E l \in Locks : \E i \in 1..Len(rwlock[l].queue) : rwlock[l].queue[i].who = h

\* the guards h holds
HeldBy(h) == { l \in Locks : rwlock[l].writer = Some(h) \/ h \in rwlock[l].readers }

Take(lk, h, mode) ==
    IF mode = "write" THEN [lk EXCEPT !.writer = Some(h)]
    ELSE [lk EXCEPT !.readers = @ \cup {h}]

\* a request arrives and its handler starts
request_begin(h, trace) ==
    /\ lock_trace[h] = << >>
    /\ lock_trace' = [lock_trace EXCEPT ![h] = trace]
    /\ UNCHANGED rwlock
    /\ LockFrame

\* read().await / write().await with the lock free and nobody waiting
lock_acquire(h) ==
    /\ lock_trace[h] # << >>
    /\ LET o == Head(lock_trace[h]) IN
        /\ o.op = "acquire"
        /\ ~Waiting(h)
        /\ rwlock[o.lock].queue = << >>
        /\ CanTake(o.lock, o.mode)
        /\ rwlock' = [rwlock EXCEPT ![o.lock] = Take(@, h, o.mode)]
    /\ lock_trace' = [lock_trace EXCEPT ![h] = Tail(@)]
    /\ LockFrame

\* read().await / write().await that has to wait: the task joins the queue
lock_wait(h) ==
    /\ lock_trace[h] # << >>
    /\ LET o == Head(lock_trace[h]) IN
        /\ o.op = "acquire"
        /\ ~Waiting(h)
        /\ ~(rwlock[o.lock].queue = << >> /\ CanTake(o.lock, o.mode))
        /\ rwlock' = [rwlock EXCEPT
                         ![o.lock].queue = Append(@, [who |-> h, mode |-> o.mode])]
    /\ UNCHANGED lock_trace
    /\ LockFrame

\* the waiter at the head of the queue is given the lock
lock_grant(h) ==
    /\ lock_trace[h] # << >>
    /\ LET o == Head(lock_trace[h]) IN
        /\ o.op = "acquire"
        /\ rwlock[o.lock].queue # << >>
        /\ Head(rwlock[o.lock].queue).who = h
        /\ CanTake(o.lock, o.mode)
        /\ rwlock' = [rwlock EXCEPT
                         ![o.lock] = Take([@ EXCEPT !.queue = Tail(@)], h, o.mode)]
    /\ lock_trace' = [lock_trace EXCEPT ![h] = Tail(@)]
    /\ LockFrame

\* a guard goes out of scope; at an exit point the handler may return
lock_release(h) ==
    /\ lock_trace[h] # << >>
    /\ LET o == Head(lock_trace[h]) IN
        /\ o.op = "release"
        /\ rwlock' = [rwlock EXCEPT
                         ![o.lock].writer = IF @ = Some(h) THEN None ELSE @,
                         ![o.lock].readers = @ \ {h}]
        /\ \/ lock_trace' = [lock_trace EXCEPT ![h] = Tail(@)]
           \/ /\ o.exit
              /\ lock_trace' = [lock_trace EXCEPT ![h] = << >>]
    /\ LockFrame

\* fire_trade(...).await resolves (or its 5 s timeout fires): Ok or Err arm
broker_io(h) ==
    /\ lock_trace[h] # << >>
    /\ Head(lock_trace[h]).op = "io"
    /\ \E arm \in {OkArmLocks, ErrArmLocks} :
          lock_trace' = [lock_trace EXCEPT ![h] = Tail(@) \o arm]
    /\ UNCHANGED rwlock
    /\ LockFrame

HandlerStep(h) ==
    \/ lock_acquire(h)
    \/ lock_wait(h)
    \/ lock_grant(h)
    \/ lock_release(h)
    \/ broker_io(h)

LockNext ==
    \E h \in Handlers :
        \/ \E trace \in TracesOf(h) : request_begin(h, trace)
        \/ HandlerStep(h)

\* every handler on the locks alone
LockSpec == Init /\ [][LockNext]_vars

\* at most MaxInFlight requests served at a time
LockFairNext ==
    \E h \in Handlers :
        \/ /\ Cardinality({ g \in Handlers : lock_trace[g] # << >> }) < MaxInFlight
           /\ \E trace \in TracesOf(h) : request_begin(h, trace)
        \/ HandlerStep(h)

\* the runtime polls every task that can run; the broker call ends
LockFairSpec ==
    Init /\ [][LockFairNext]_vars /\ \A h \in Handlers : WF_vars(HandlerStep(h))

\* ---------------------------------------------------------------------------
\* Claims about the risk governor
\* ---------------------------------------------------------------------------
\* trades_today as pre_trade_check sees it after its daily reset
TradesTodayAfterReset ==
    IF date_naive(now) > risk.daily_reset_date THEN 0 ELSE risk.trades_today

\* C5: whenever max_trades_per_day > 0, trades_today never exceeds it, and
\* no more than max_trades_per_day Approved decisions are returned on one
\* UTC day, over every order of the governor's operations and day rollovers.
C5_DailyCap ==
    max_trades_per_day > 0 =>
        /\ risk.trades_today <= max_trades_per_day
        /\ approvals.count <= max_trades_per_day

\* C5 witness: the cap is reached and a further check is turned away by it
C5_Witness ==
    /\ risk.trades_today = max_trades_per_day
    /\ approvals.count = max_trades_per_day
    /\ decision # None
    /\ decision[1].fmt = "Daily trade limit reached: {}/{}"

\* C6 as stated: once max_consecutive_failures failures are counted,
\* is_killed is true.
C6_Original ==
    (max_consecutive_failures > 0
       /\ risk.consecutive_failures >= max_consecutive_failures)
    => risk.is_killed

\* C6 amended: record_failure never sets is_killed itself; while
\* consecutive_failures >= max_consecutive_failures (> 0) no pre_trade_check
\* returns Approved, and every pre_trade_check that is not turned away by the
\* cooldown or the daily limit leaves is_killed = true.
C6_AutoKill ==
    [][ /\ RecordFailureCall => risk'.is_killed = risk.is_killed
        /\ ( PreTradeCheckCall
             /\ max_consecutive_failures > 0
             /\ risk.consecutive_failures >= max_consecutive_failures )
           => /\ decision'[1].kind = "Blocked"
              /\ decision'[1].fmt \notin
                     { "Cooldown: {remaining}s remaining after last failure",
                       "Daily trade limit reached: {}/{}" }
                 => risk'.is_killed ]_vars

\* C6 witness: the failure count reached the maximum and a later
\* pre_trade_check has auto-killed
C6_Witness ==
    /\ risk.consecutive_failures >= max_consecutive_failures
    /\ risk.is_killed
    /\ risk.kill_reason =
         Some(Str("Auto-kill: {} consecutive execution failures",
                  risk.consecutive_failures))

\* C7 as stated: with max_consecutive_failures failures counted (and the
\* switch not yet thrown), the next pre_trade_check returns the Auto-kill
\* block and sets is_killed.
C7_Original ==
    [][ ( PreTradeCheckCall
          /\ ~risk.is_killed
          /\ risk.consecutive_failures >= max_consecutive_failures )
        => /\ decision'[1].kind = "Blocked"
           /\ decision'[1].fmt = "Auto-kill: {} consecutive execution failures"
           /\ risk'.is_killed ]_vars

\* C7 amended: with max_consecutive_failures failures counted and the switch
\* not yet thrown, the next pre_trade_check returns Blocked: inside the
\* cooldown it is the Cooldown block and at the daily limit the Daily-limit
\* block, both leaving is_killed false; otherwise it is
\* "Auto-kill: <n> consecutive execution failures" with n the failure count,
\* and is_killed is set with that reason.
C7_AutoKillAfterCooldown ==
    [][ ( PreTradeCheckCall
          /\ ~risk.is_killed
          /\ risk.consecutive_failures >= max_consecutive_failures )
        => IF /\ risk.last_failure_at # None
              /\ now - risk.last_failure_at[1] < cooldown_secs_after_failure
           THEN /\ decision'[1].kind = "Blocked"
                /\ decision'[1].fmt =
                     "Cooldown: {remaining}s remaining after last failure"
                /\ ~risk'.is_killed
           ELSE IF TradesTodayAfterReset >= max_trades_per_day
           THEN /\ decision'[1].kind = "Blocked"
                /\ decision'[1].fmt = "Daily trade limit reached: {}/{}"
                /\ ~risk'.is_killed
           ELSE /\ decision'[1].kind = "Blocked"
                /\ decision'[1].fmt = "Auto-kill: {} consecutive execution failures"
                /\ decision'[1].n = risk.consecutive_failures
                /\ risk'.is_killed
                /\ risk'.kill_reason =
                     Some(Str("Auto-kill: {} consecutive execution failures",
                              risk.consecutive_failures)) ]_vars

\* C7 witness: a check returned the Auto-kill block for exactly
\* max_consecutive_failures failures and the switch is thrown
C7_Witness ==
    /\ decision # None
    /\ decision[1].kind = "Blocked"
    /\ decision[1].fmt = "Auto-kill: {} consecutive execution failures"
    /\ decision[1].n = max_consecutive_failures
    /\ risk.is_killed

\* C8: the kill switch is a latch. While is_killed is true every
\* pre_trade_check returns Blocked("Kill switch active: " + reason), never
\* Approved, and every operation but rearm leaves is_killed true.
C8_KillLatch ==
    [][ risk.is_killed =>
          /\ PreTradeCheckCall =>
               /\ decision'[1].kind = "Blocked"
               /\ decision'[1].fmt = "Kill switch active: {}"
               /\ decision'[1].s = risk.kill_reason[1]
          /\ risk'.is_killed \/ kill_switch_off ]_vars

\* C8 witness: the switch is thrown, a success was recorded and a day has
\* rolled over since, and the latest check was turned away by the switch
C8_Witness ==
    /\ risk.is_killed
    /\ risk.consecutive_failures = 0
    /\ risk.last_failure_at # None
    /\ risk.daily_reset_date >= 1
    /\ decision # None
    /\ decision[1].fmt = "Kill switch active: {}"

\* ---------------------------------------------------------------------------
\* Claims about the tick path and the trigger dispatch
\* ---------------------------------------------------------------------------
\* broker requests posted for the plan with this id
OrdersOf(id) == { i \in DOMAIN broker_orders : broker_orders[i].comment.n = id }

\* TradeRecords created for the plan with this id (each is broadcast once)
RecordsOf(id) ==
    { i \in DOMAIN events : /\ events[i].event = "TRADE_FIRING"
                            /\ events[i].body.strategy_id = id }

\* C1: for the plan installed last (no newer plan has been ingested), at
\* most one broker order has been posted and at most one TradeRecord has
\* been created, whatever the interleaving of the tick handlers.
C1_Original ==
    \A id \in 1..MaxPlans :
        plans_posted = id =>
            /\ Cardinality(OrdersOf(id)) <= 1
            /\ Cardinality(RecordsOf(id)) <= 1

\* positions of a task between the Trigger decision and the broker response
TriggerToResponse ==
    {"risk_check", "trade_firing", "consume", "fire_trade", "await_broker"}

\* C2 as stated: from the Trigger decision to the broker response the
\* active plan is None.
C2_Original ==
    \A p \in Procs : pc[p] \in TriggerToResponse => active_strategy = None

\* C2 amended: the dispatch's consume write leaves the active plan None, and
\* from that write to the broker response the plan stays None unless
\* set_strategy installs a new one; between the Trigger decision and the
\* consume write the plan may still be installed.
C2_ConsumedUntilResponse ==
    [][ \A p \in Procs :
          /\ (pc[p] = "consume" /\ pc'[p] # "consume") => active_strategy' = None
          /\ ( pc[p] \in {"fire_trade", "await_broker"}
               /\ active_strategy = None
               /\ active_strategy' # None )
             => plans_posted' = plans_posted + 1 ]_vars

\* C2 witness: a task waits for the broker, the plan it triggered on is
\* gone, and a second task has meanwhile read no plan
C2_Witness ==
    \E p, q \in Procs :
        /\ pc[p] = "await_broker"
        /\ active_strategy = None
        /\ pc[q] = "done"
        /\ response[q] = Some("NO_ACTION")
        /\ strategy[q] = None
        /\ tick[q] = tick[p]

\* C3: while an open position for the tick's symbol exists, every step of
\* evaluate_tick on that tick either moves from the plan read to the
\* double-entry guard or ends the evaluation in NoAction; the guard itself
\* always ends it in NoAction, so no such evaluation returns Trigger.
C3_DoubleEntry ==
    [][ \A p \in Procs :
          ( pc[p] \in {"read_strategy", "double_entry"}
            /\ pc'[p] # pc[p]
            /\ open_position # None
            /\ open_position[1].symbol = tick[p][1].symbol )
          => \/ /\ pc[p] = "read_strategy"
                /\ pc'[p] = "double_entry"
             \/ /\ pc'[p] = "done"
                /\ response'[p] = Some("NO_ACTION") ]_vars

\* C3 witness: a tick got NoAction although its plan matched, its price was
\* in the zone and the buffer confirms: a position for its symbol is open
C3_Witness ==
    \E p \in Procs :
        /\ pc[p] = "done"
        /\ response[p] = Some("NO_ACTION")
        /\ strategy[p] # None
        /\ open_position # None
        /\ open_position[1].symbol = tick[p][1].symbol
        /\ tick[p][1].ask >= strategy[p][1].entry_zone.low
        /\ tick[p][1].ask <= strategy[p][1].entry_zone.high
        /\ check_confirmation(tick[p][1].bid, tick[p][1].ask,
                              strategy[p][1].entry_zone, strategy[p][1].direction,
                              tick_buffer[tick[p][1].symbol],
                              tick[p][1].rsi_14).confirmed

\* C4: a tick evaluated while the active plan is None ends in NoAction at
\* the plan read, which changes no position, history, risk state, broker
\* request or event; and no task without a cloned plan is ever in a risk
\* check or a dispatch.
C4_NoPlanNoAction ==
    /\ [](\A p \in Procs :
            strategy[p] = None => pc[p] \in {"idle", "read_strategy", "done"})
    /\ [][ \A p \in Procs :
             ( pc[p] = "read_strategy"
               /\ pc'[p] # "read_strategy"
               /\ active_strategy = None )
             => /\ pc'[p] = "done"
                /\ response'[p] = Some("NO_ACTION")
                /\ strategy'[p] = None
                /\ UNCHANGED << open_position, trade_history, risk, decision,
                                broker_orders, events, trade_count >> ]_vars

\* C4 witness: no plan was ever installed, a tick was answered NO_ACTION and
\* its sample is in the buffer
C4_Witness ==
    \E p \in Procs :
        /\ plans_posted = 0
        /\ pc[p] = "done"
        /\ response[p] = Some("NO_ACTION")
        /\ Len(tick_buffer[tick[p][1].symbol]) >= 1
        /\ broker_orders = << >>
        /\ decision = None

\* positions of a task inside the trigger dispatch
DispatchPcs ==
    {"risk_check", "trade_firing", "consume", "fire_trade", "await_broker",
     "resolved", "push_confirmed", "record_success", "position_opened",
     "record_failure", "trade_failed"}

\* a dispatch of task p has returned after the broker accepted the order
ReturnedConfirmed(p) ==
    /\ pc[p] = "done"
    /\ result[p] # None
    /\ result[p][1].ok

\* a dispatch of task p has returned after the broker call failed
ReturnedFailed(p) ==
    /\ pc[p] = "done"
    /\ result[p] # None
    /\ ~result[p][1].ok

\* C9: when a dispatch whose broker call returned retcode 10009 and ticket T
\* returns (no other request being served meanwhile), the open position is
\* the one derived from the triggering plan and tick (ask for Buy, bid for
\* Sell) with ticket T, the active plan is None, and the dispatch has
\* appended exactly one record, Confirmed with ticket T.
C9_ConfirmedDispatch ==
    /\ [](\A p \in Procs :
            ReturnedConfirmed(p) =>
              LET st == strategy[p][1]
                  tk == tick[p][1]
                  T  == result[p][1].val[1].order
                  h  == trade_history
              IN  /\ result[p][1].val[1].retcode = 10009
                  /\ open_position # None
                  /\ open_position[1].strategy_id = st.strategy_id
                  /\ open_position[1].symbol = st.symbol
                  /\ open_position[1].direction = st.direction
                  /\ open_position[1].lot_size = st.lot_size
                  /\ open_position[1].take_profit = st.take_profit
                  /\ open_position[1].stop_loss = st.stop_loss
                  /\ st.direction = "Buy"  => open_position[1].entry_price = tk.ask
                  /\ st.direction = "Sell" => open_position[1].entry_price = tk.bid
                  /\ open_position[1].mt5_ticket = T
                  /\ active_strategy = None
                  /\ Len(h) >= 1
                  /\ h[Len(h)].status = "Confirmed"
                  /\ h[Len(h)].mt5_ticket = T
                  /\ h[Len(h)].strategy_id = st.strategy_id
                  /\ Cardinality({ i \in DOMAIN h :
                                     h[i].trade_id = h[Len(h)].trade_id }) = 1
                  /\ response[p] = Some("TRADE_TRIGGERED"))
    /\ [][ \A p \in Procs :
             pc[p] \in DispatchPcs =>
               \/ trade_history' = trade_history
               \/ /\ pc[p] \in {"push_confirmed", "resolved"}
                  /\ Len(trade_history') = Len(trade_history) + 1
                  /\ SubSeq(trade_history', 1, Len(trade_history)) = trade_history
           ]_vars

\* C9 witness: a Sell dispatch has returned with the ticket the broker issued
C9_Witness ==
    \E p \in Procs :
        /\ ReturnedConfirmed(p)
        /\ strategy[p][1].direction = "Sell"
        /\ mt5_base_url # "mock"
        /\ open_position # None
        /\ open_position[1].mt5_ticket = Some(last_ticket)
        /\ open_position[1].entry_price = tick[p][1].bid

C11_SuccessOnly ==
    /\ [](\A p \in Procs :
            /\ (mt5_base_url = "mock" /\ result[p] # None)
               => /\ result[p][1].ok
                  /\ result[p][1].val[1].order = Some(999999)
            /\ (pc[p] = "done" /\ result[p] # None)
               => IF result[p][1].ok
                  THEN /\ result[p][1].val[1].retcode = 10009
                       /\ position[p] # None
                       /\ record[p][1].status = "Confirmed"
                  ELSE /\ position[p] = None
                       /\ record[p][1].status = "Failed")
    /\ [][ /\ \A p \in Procs : \A reply \in BrokerReplies :
                broker_reply(p, reply)
                => ( result'[p][1].ok
                     <=> /\ reply.kind = "json"
                         /\ reply.status >= 200 /\ reply.status <= 299
                         /\ reply.retcode = 10009 )
           /\ ( \/ (open_position' # open_position /\ open_position' # None)
                \/ /\ Len(trade_history') = Len(trade_history) + 1
                   /\ trade_history'[Len(trade_history')].status = "Confirmed" )
              => \E p \in Procs :
                    /\ pc[p] \in {"resolved", "push_confirmed"}
                    /\ result[p][1].ok
                    /\ result[p][1].val[1].retcode = 10009 ]_vars

\* C11 witness: the broker answered retcode 10008 over HTTP 200 and the
\* dispatch has returned on the failure path, no position installed
C11_Witness ==
    \E p \in Procs :
        /\ ReturnedFailed(p)
        /\ record[p][1].status_message.n = 10008
        /\ position[p] = None
        /\ open_position = None
        /\ Len(broker_orders) >= 1
        /\ trade_history[Len(trade_history)].status = "Failed"

\* ---------------------------------------------------------------------------
\* Claims about the close notification
\* ---------------------------------------------------------------------------
\* the least element of a non-empty set of indices
First(hits) == CHOOSE i \in hits : \A j \in hits : i <= j

\* the record a close notification is meant to update: by ticket first,
\* else the first of the payload's symbol; 0 if there is none
TicketFirst(history, pl) ==
    LET byTicket == { i \in 1..Len(history) :
                        pl.mt5_ticket # None /\ history[i].mt5_ticket = pl.mt5_ticket }
        bySymbol == { i \in 1..Len(history) : history[i].symbol = pl.symbol }
    IN  IF byTicket # {} THEN First(byTicket)
        ELSE IF bySymbol # {} THEN First(bySymbol)
        ELSE 0

\* C12: the history update of a close notification fills the close fields
\* of the record with the payload's ticket and, only if no record has that
\* ticket, of the first record with the payload's symbol; no other record
\* is changed.
C12_Original ==
    [][ (close_pc = "history" /\ close_pc' = "broadcast")
        => LET pl == payload[1]
               i  == TicketFirst(trade_history, pl)
           IN  /\ \A j \in 1..Len(trade_history) :
                     trade_history'[j] # trade_history[j] => j = i
               /\ i # 0 => /\ trade_history'[i].close_price = Some(pl.close_price)
                           /\ trade_history'[i].close_reason = Some(pl.close_reason)
      ]_vars

\* C13: a close notification that finds an open position leaves
\* open_position = None whatever symbol and ticket its payload names; one
\* that finds none answers "No open position to close" and changes neither
\* the position, the history nor the event channel.
C13_CloseClears ==
    /\ [](close_pc = "done" =>
            IF current_pos # None
            THEN /\ open_position = None
                 /\ close_response = Some("Position closed")
            ELSE close_response = Some("No open position to close"))
    /\ [][ /\ (close_pc = "idle" /\ close_pc' # "idle" /\ open_position = None)
              => /\ close_pc' = "done"
                 /\ current_pos' = None
                 /\ UNCHANGED << open_position, trade_history, events >>
           /\ (close_pc = "clear" /\ close_pc' # "clear") => open_position' = None
           /\ (close_pc = "done" /\ close_pc' # "done")
              => UNCHANGED << open_position, trade_history, events >> ]_vars

\* C13 witness: a notification naming another symbol and no ticket has
\* cleared the open position
C13_Witness ==
    /\ close_pc = "done"
    /\ current_pos # None
    /\ payload[1].symbol # current_pos[1].symbol
    /\ payload[1].mt5_ticket = None
    /\ open_position = None

\* C14: trade history is append-only: no step removes or reorders a record,
\* and a record already in history is changed only by a close notification
\* that finds its close fields still empty, so the close fields of a record
\* are written at most once.
C14_Original ==
    [][ /\ Len(trade_history') >= Len(trade_history)
        /\ \A i \in 1..Len(trade_history) :
              /\ trade_history'[i].trade_id = trade_history[i].trade_id
              /\ trade_history'[i] # trade_history[i]
                 => /\ close_pc = "history"
                    /\ trade_history[i].closed_at = None ]_vars

\* ---------------------------------------------------------------------------
\* Claims about the tick buffer
\* ---------------------------------------------------------------------------
\* C15: from the first step of evaluate_tick(T) on, gates not yet run
\* included, and until the handler has returned, the newest element of the
\* buffer of T.symbol is the sample (mid, spread) of T, whichever gate ends
\* the evaluation and also when no plan is installed (no other tick being
\* recorded meanwhile).
C15_NewestSample ==
    \A p \in Procs :
        pc[p] # "idle" =>
            LET tk == tick[p][1]
                b  == tick_buffer[tk.symbol]
            IN  /\ Len(b) >= 1
                /\ b[Len(b)] = RecentTickNew(tk.bid, tk.ask)
                /\ b[Len(b)].mid = (tk.bid + tk.ask) \div 2
                /\ b[Len(b)].spread = tk.ask - tk.bid

\* C15 witness: an evaluation that cloned the plan was stopped by a later
\* gate, and its sample sits on top of an older, different one
C15_Witness ==
    \E p \in Procs :
        /\ pc[p] = "done"
        /\ response[p] = Some("NO_ACTION")
        /\ strategy[p] # None
        /\ Len(tick_buffer[tick[p][1].symbol]) >= 2
        /\ tick_buffer[tick[p][1].symbol][1] # RecentTickNew(tick[p][1].bid, tick[p][1].ask)
        /\ tick_buffer[tick[p][1].symbol][Len(tick_buffer[tick[p][1].symbol])]
             = RecentTickNew(tick[p][1].bid, tick[p][1].ask)

\* C16: after any sequence of record_tick calls every symbol's buffer is the
\* last min(n, TICK_BUFFER_SIZE) of the n samples recorded for it, in
\* arrival order, never longer than TICK_BUFFER_SIZE; and a step that
\* records nothing for a symbol leaves that symbol's buffer as it was.
C16_LastThirty ==
    /\ [](\A symbol \in Symbols :
            LET n == Len(recorded[symbol])
                m == Min(n, TICK_BUFFER_SIZE)
            IN  /\ Len(tick_buffer[symbol]) <= TICK_BUFFER_SIZE
                /\ tick_buffer[symbol] = SubSeq(recorded[symbol], n - m + 1, n))
    /\ [][ \A symbol \in Symbols :
             recorded'[symbol] = recorded[symbol]
             => tick_buffer'[symbol] = tick_buffer[symbol] ]_vars

\* C16 witness: two samples of a symbol have been evicted, oldest first,
\* while the other symbol's shorter buffer is untouched
C16_Witness ==
    \E symbol, other \in Symbols :
        /\ symbol # other
        /\ Len(recorded[symbol]) = TICK_BUFFER_SIZE + 2
        /\ Len(tick_buffer[symbol]) = TICK_BUFFER_SIZE
        /\ tick_buffer[symbol][1] = recorded[symbol][3]
        /\ tick_buffer[symbol][1] # recorded[symbol][1]
        /\ Len(tick_buffer[other]) = 1

\* ---------------------------------------------------------------------------
\* Claims about plan ingest
\* ---------------------------------------------------------------------------
\* the plan invariants the planner's contract states
PlanInvariants(st) ==
    /\ st.direction = "Buy"
       => /\ st.stop_loss < st.entry_zone.low
          /\ st.entry_zone.low <= st.entry_zone.high
          /\ st.entry_zone.high < st.take_profit
    /\ st.direction = "Sell"
       => /\ st.take_profit < st.entry_zone.low
          /\ st.entry_zone.low <= st.entry_zone.high
          /\ st.entry_zone.high < st.stop_loss
    /\ st.lot_size > 0
    /\ st.expires_at # None => st.expires_at[1] > st.created_at

\* C17: the installed plan always satisfies the plan invariants (a violating
\* body is rejected at ingest), and so does every plan evaluate_tick has
\* cloned and every order sent for it.
C17_Original ==
    /\ active_strategy # None => PlanInvariants(active_strategy[1])
    /\ \A p \in Procs : strategy[p] # None => PlanInvariants(strategy[p][1])

\* ---------------------------------------------------------------------------
\* Claims about the risk-blocked trigger
\* ---------------------------------------------------------------------------
\* C18: when pre_trade_check blocks a trigger, that step ends the handler
\* with RISK_BLOCKED and leaves the active plan, the open position, the
\* trade history, the event channel and the broker untouched; the handler
\* has built no order, record or position, and the plan it triggered on is
\* still the active plan when it returns.
C18_RiskBlockedFrame ==
    /\ [](\A p \in Procs :
            response[p] = Some("RISK_BLOCKED")
            => /\ pc[p] = "done"
               /\ decision[1].kind = "Blocked"
               /\ active_strategy = strategy[p]
               /\ order[p] = None
               /\ record[p] = None
               /\ position[p] = None
               /\ result[p] = None)
    /\ [][ \A p \in Procs :
             ( pc[p] = "risk_check"
               /\ pc'[p] # "risk_check"
               /\ PreTradeDecision(risk, now).kind = "Blocked" )
             => /\ pc'[p] = "done"
                /\ response'[p] = Some("RISK_BLOCKED")
                /\ UNCHANGED << active_strategy, open_position, trade_history,
                                events, broker_orders, next_uuid >> ]_vars

\* C18 witness: a trigger was turned away by the cooldown after a failed
\* dispatch, and the plan is still armed
C18_Witness ==
    \E p \in Procs :
        /\ pc[p] = "done"
        /\ response[p] = Some("RISK_BLOCKED")
        /\ decision[1].fmt = "Cooldown: {remaining}s remaining after last failure"
        /\ active_strategy # None
        /\ active_strategy = strategy[p]
        /\ Len(trade_history) = 1

\* ---------------------------------------------------------------------------
\* Claims about the confirmation gates
\* ---------------------------------------------------------------------------
\* the four gates, each stated on the call's inputs alone
SpreadGateFails(c) == c.current_ask - c.current_bid > 50

ProbeGateFails(c) ==
    ~ \E i \in 1..Len(c.buffer) :
          /\ i > Len(c.buffer) - 15
          /\ IF c.dir = "Buy" THEN c.buffer[i].mid < Zone.low
                              ELSE c.buffer[i].mid > Zone.high

\* length of the longest run of in-zone samples at the newest end
NewestRunInZone(buffer) ==
    LET runs == { k \in 0..Len(buffer) :
                    \A i \in 1..Len(buffer) :
                        i > Len(buffer) - k
                        => (Zone.low <= buffer[i].mid /\ buffer[i].mid <= Zone.high) }
    IN  CHOOSE k \in runs : \A j \in runs : j <= k

DwellGateFails(c) ==
    LET mid == (c.current_bid + c.current_ask) \div 2
    IN  NewestRunInZone(c.buffer)
          + (IF Zone.low <= mid /\ mid <= Zone.high THEN 1 ELSE 0) < 2

RsiGateFails(c) ==
    /\ c.rsi # None
    /\ IF c.dir = "Buy" THEN c.rsi[1] >= 70 ELSE c.rsi[1] <= 30

\* C19: check_confirmation reports the first failing gate in the order
\* spread, zone probe, zone dwell, RSI, whatever the later gates would say,
\* and returns Confirmed exactly when no gate fails.
C19_GateOrder ==
    confirmation # None =>
        LET c == confirmation[1]
            r == c.result
        IN  /\ r.confirmed <=> ~ ( SpreadGateFails(c) \/ ProbeGateFails(c)
                                   \/ DwellGateFails(c) \/ RsiGateFails(c) )
            /\ SpreadGateFails(c) => r = Rejected("spread too wide")
            /\ (~SpreadGateFails(c) /\ ProbeGateFails(c))
               => r = Rejected("no zone probe detected")
            /\ (~SpreadGateFails(c) /\ ~ProbeGateFails(c) /\ DwellGateFails(c))
               => r = Rejected("insufficient zone dwell")
            /\ ( ~SpreadGateFails(c) /\ ~ProbeGateFails(c) /\ ~DwellGateFails(c)
                 /\ RsiGateFails(c) )
               => r = Rejected("rsi out of range")

\* C19 witness: spread, probe and RSI gates would all fail and the call
\* reported the spread
C19_Witness ==
    /\ confirmation # None
    /\ SpreadGateFails(confirmation[1])
    /\ ProbeGateFails(confirmation[1])
    /\ RsiGateFails(confirmation[1])
    /\ Len(confirmation[1].buffer) = MaxBufLen
    /\ confirmation[1].result = Rejected("spread too wide")

\* the symbol's consecutive most-recent recorded samples inside the zone;
\* the log already ends with the sample of the tick being evaluated
DwellCountedOnce(p) ==
    InZoneConsecutive(recorded[tick[p][1].symbol], strategy[p][1].entry_zone)

\* C20: in the live tick path the dwell total compared with min_zone_ticks
\* counts the current tick exactly once, so a tick whose run of in-zone
\* samples, itself included, is shorter than min_zone_ticks never passes the
\* confirmation step: the evaluation ends with NO_ACTION.
C20_Original ==
    [][ \A p \in Procs :
          ( pc[p] = "confirmation"
            /\ pc'[p] # "confirmation"
            /\ DwellCountedOnce(p) < min_zone_ticks )
          => /\ pc'[p] = "done"
             /\ response'[p] = Some("NO_ACTION") ]_vars

\* C21: the gate thresholds are inclusive on the stated side. A spread equal
\* to max_spread is not rejected for its spread and a larger one is; once
\* spread and probe pass, the dwell gate rejects exactly the totals below
\* min_zone_ticks, samples and quotes whose mid sits on a bound of the zone
\* counting as inside; once the dwell passes too, a Buy is confirmed exactly
\* when its RSI is below rsi_overbought; and the evaluator's zone gate lets a
\* tick through exactly when zone.low <= entry price <= zone.high.
C21_InclusiveThresholds ==
    /\ [](confirmation # None =>
            LET c      == confirmation[1]
                r      == c.result
                spread == c.current_ask - c.current_bid
                mid    == (c.current_bid + c.current_ask) \div 2
                dwell  == NewestRunInZone(c.buffer)
                            + (IF Zone.low <= mid /\ mid <= Zone.high THEN 1 ELSE 0)
                early  == {"spread too wide", "no zone probe detected"}
            IN  /\ spread <= 50 => r.reason # "spread too wide"
                /\ spread > 50 => r = Rejected("spread too wide")
                /\ r.reason \notin early
                   => (r.reason = "insufficient zone dwell" <=> dwell < 2)
                /\ ( c.dir = "Buy" /\ c.rsi # None
                     /\ r.reason \notin early \cup {"insufficient zone dwell"} )
                   => (r.confirmed <=> c.rsi[1] < 70))
    /\ [][ \A p \in Procs :
             ( pc[p] = "double_entry" /\ pc'[p] # "double_entry"
               /\ ~has_open_position_for(tick[p][1].symbol) )
             => LET st    == strategy[p][1]
                    price == IF st.direction = "Buy" THEN tick[p][1].ask
                                                     ELSE tick[p][1].bid
                IN  pc'[p] = "confirmation"
                      <=> (st.entry_zone.low <= price /\ price <= st.entry_zone.high)
         ]_vars

\* C21 witness: a direct call with spread = max_spread, a dwell total of
\* exactly min_zone_ticks made of a sample on zone.high and a quote whose mid
\* is inside, and RSI one below rsi_overbought, is Confirmed
C21_Witness ==
    /\ confirmation # None
    /\ confirmation[1].current_ask - confirmation[1].current_bid = max_spread
    /\ confirmation[1].dir = "Buy"
    /\ confirmation[1].rsi = Some(rsi_overbought - 1)
    /\ Len(confirmation[1].buffer) >= 2
    /\ confirmation[1].buffer[Len(confirmation[1].buffer)].mid = Zone.high
    /\ NewestRunInZone(confirmation[1].buffer) = 1
    /\ confirmation[1].result = Confirmed

\* ---------------------------------------------------------------------------
\* Claims about the backtest simulator
\* ---------------------------------------------------------------------------
\* C22: for the same plan and the same ordered ticks (RSI absent), as long as
\* no trade has been triggered before, the tick just served opens a simulated
\* trade in the backtest exactly when the live handler got Trigger for it,
\* ticks of other symbols included.
C22_Original ==
    \A p \in Procs :
        ( /\ pc[p] = "done"
          /\ IsSome(backtest)
          /\ IsSome(Unwrap(backtest).result)
          /\ trade_count = (IF response[p] = Some("NO_ACTION") THEN 0 ELSE 1)
          /\ \A k \in 1..Len(Unwrap(Unwrap(backtest).result).trades) :
                Unwrap(Unwrap(backtest).result).trades[k].tick_index
                    >= Len(Unwrap(backtest).ticks) - 1 )
        => ( response[p] # Some("NO_ACTION")
             <=> \E k \in 1..Len(Unwrap(Unwrap(backtest).result).trades) :
                    Unwrap(Unwrap(backtest).result).trades[k].tick_index
                        = Len(Unwrap(backtest).ticks) - 1 )

\* ---------------------------------------------------------------------------
\* Claims about the brain routes
\* ---------------------------------------------------------------------------
\* C24: plan clear is idempotent. Every clear leaves the active plan None and
\* the open position, history, risk state and tick buffers as they were, and
\* a clear made when no plan is installed (the second of two in a row, or one
\* on an empty server) changes nothing at all.
C24_ClearIdempotent ==
    [][ clear_strategy
        => /\ active_strategy' = None
           /\ UNCHANGED << open_position, trade_history, risk, tick_buffer,
                           latest_candle, events >>
           /\ active_strategy = None => UNCHANGED vars ]_vars

\* C24 witness: the second plan was installed after the first one's dispatch
\* had opened a position, and has been cleared again (no dispatch took it)
C24_Witness ==
    /\ active_strategy = None
    /\ IsSome(open_position)
    /\ plans_posted = 2
    /\ Len(trade_history) = 1
    /\ trade_history[1].strategy_id = 1
    /\ Quiescent

\* ---------------------------------------------------------------------------
\* Claims about the order of mutations and events
\* ---------------------------------------------------------------------------
\* the record a dispatch pushed for the position it installed
OwnRecord(rec, pos) ==
    /\ rec.status = "Confirmed"
    /\ rec.strategy_id = pos.strategy_id
    /\ rec.mt5_ticket = pos.mt5_ticket

\* C23: a state-change event is broadcast only once the mutation it reports
\* is in shared state: PositionOpened finds the position installed and its
\* Confirmed record in history, TradeFailed finds the Failed record in
\* history and the failure counted, PositionClosed finds the open position
\* cleared and the close fields of the closed position's record filled.
C23_Original ==
    [][ Len(events') = Len(events) + 1
        => LET ev == events'[Len(events')] IN
           /\ ev.event = "POSITION_OPENED"
              => /\ open_position' = Some(ev.body)
                 /\ \E k \in 1..Len(trade_history') :
                       OwnRecord(trade_history'[k], ev.body)
           /\ ev.event = "TRADE_FAILED"
              => /\ \E k \in 1..Len(trade_history') :
                       /\ trade_history'[k] = ev.body
                       /\ ev.body.status = "Failed"
                 /\ risk'.consecutive_failures >= 1
                 /\ IsSome(risk'.last_failure_at)
           /\ ev.event = "POSITION_CLOSED"
              => /\ open_position' = None
                 /\ \E k \in 1..Len(trade_history') :
                       /\ OwnRecord(trade_history'[k], Unwrap(current_pos))
                       /\ trade_history'[k].close_reason = Some(ev.body.close_reason)
                       /\ IsSome(trade_history'[k].closed_at) ]_vars

\* ---------------------------------------------------------------------------
\* Claims about the open position
\* ---------------------------------------------------------------------------
\* C25: once installed, an open position stays in shared state unchanged
\* until a close notification clears it; no dispatch installs a position
\* while one is open.
C25_Original ==
    [][ IsSome(open_position)
        => \/ open_position' = open_position
           \/ open_position' = None /\ close_clear ]_vars

\* ---------------------------------------------------------------------------
\* Claims about the plan consume
\* ---------------------------------------------------------------------------
\* positions of a dispatch from its consume write to its return
AfterConsume ==
    {"fire_trade", "await_broker", "resolved", "push_confirmed", "record_success",
     "position_opened", "record_failure", "trade_failed"}

\* C26: the consume write precedes the broker request and the dispatch never
\* puts its plan back: from the consume write on, through the broker call
\* and both of its arms, the installed plan is never the one that dispatch
\* was triggered by; and a tick that reads the plan while another task is
\* between consume and the broker's answer, no plan having been ingested
\* after the dispatched one, ends in NO_ACTION.
C26_ConsumeBeforeBroker ==
    /\ [](\A p \in Procs :
            pc[p] \in AfterConsume => active_strategy # strategy[p])
    /\ [][ \A p, q \in Procs :
             ( /\ pc[q] = "read_strategy"
               /\ pc'[q] # "read_strategy"
               /\ pc[p] \in {"fire_trade", "await_broker", "resolved"}
               /\ plans_posted = strategy[p][1].strategy_id )
             => /\ pc'[q] = "done"
                /\ response'[q] = Some("NO_ACTION") ]_vars

\* C26 witness: the broker has failed the only order of the latest plan, the
\* dispatch is about to return, no plan is installed, and a tick of the
\* plan's symbol that arrived meanwhile was answered NO_ACTION
C26_Witness ==
    \E p, q \in Procs :
        /\ pc[p] = "trade_failed"
        /\ plans_posted = strategy[p][1].strategy_id
        /\ active_strategy = None
        /\ Len(broker_orders) = 1
        /\ pc[q] = "done"
        /\ response[q] = Some("NO_ACTION")
        /\ strategy[q] = None
        /\ tick[q][1].symbol = strategy[p][1].symbol
        /\ contains(strategy[p][1].entry_zone, tick[q][1].ask)

\* ---------------------------------------------------------------------------
\* Claims about the risk bookkeeping of a dispatch
\* ---------------------------------------------------------------------------
\* C30: a dispatch that issued a broker call invokes exactly one of
\* record_success / record_failure, after the call has resolved and before
\* the handler returns: it returns only through the step after that call,
\* which it reaches only by making the call, once, on the arm its result
\* selects; nothing else touches the failure bookkeeping; and a risk-blocked
\* dispatch returns with only the effect of pre_trade_check on the risk state.
C30_RecordOnce ==
    [][ /\ \A p \in Procs :
             /\ (pc'[p] = "done" /\ pc[p] # "done" /\ IsSome(result[p]))
                => pc[p] = (IF result[p][1].ok THEN "position_opened"
                                               ELSE "trade_failed")
             /\ (pc'[p] = "position_opened" /\ pc[p] # "position_opened")
                => /\ pc[p] = "record_success"
                   /\ result[p][1].ok
                   /\ risk' = [risk EXCEPT !.consecutive_failures = 0]
             /\ (pc'[p] = "trade_failed" /\ pc[p] # "trade_failed")
                => /\ pc[p] = "record_failure"
                   /\ ~result[p][1].ok
                   /\ risk' = [risk EXCEPT
                                 !.consecutive_failures = risk.consecutive_failures + 1,
                                 !.last_failure_at = Some(now)]
             /\ (pc[p] \in {"record_success", "record_failure"} /\ pc'[p] # pc[p])
                => pc'[p] \in {"position_opened", "trade_failed"}
             /\ (pc'[p] = "done" /\ pc[p] # "done"
                 /\ response'[p] = Some("RISK_BLOCKED"))
                => /\ result[p] = None
                   /\ risk'.consecutive_failures = risk.consecutive_failures
                   /\ risk'.last_failure_at = risk.last_failure_at
        /\ ( \/ risk'.consecutive_failures # risk.consecutive_failures
             \/ risk'.last_failure_at # risk.last_failure_at )
           => \E p \in Procs : /\ pc[p] \in {"record_success", "record_failure"}
                               /\ pc'[p] # pc[p] ]_vars

\* C30 witness: a first dispatch failed at the broker and was counted, the
\* next one succeeded and reset the count, and its handler has returned
\* TRADE_TRIGGERED
C30_Witness ==
    \E p \in Procs :
        /\ pc[p] = "done"
        /\ response[p] = Some("TRADE_TRIGGERED")
        /\ Len(trade_history) = 2
        /\ trade_history[1].status = "Failed"
        /\ trade_history[2].status = "Confirmed"
        /\ Len(broker_orders) = 2
        /\ risk.consecutive_failures = 0
        /\ IsSome(risk.last_failure_at)

\* ---------------------------------------------------------------------------
\* Claims about close notifications racing with dispatches
\* ---------------------------------------------------------------------------
\* C28: under concurrent close notifications and dispatches, no position is
\* reported closed twice, and a close request clears no position other than
\* the one it snapshotted.
C28_Original ==
    /\ [](\A i, j \in DOMAIN events :
            ( /\ events[i].event = "POSITION_CLOSED"
              /\ events[j].event = "POSITION_CLOSED"
              /\ events[i].body.position_id = events[j].body.position_id )
            => i = j)
    /\ [][ (close_pc = "clear" /\ close_pc' # "clear")
           => open_position = current_pos ]_vars

\* C29: whenever an open position with ticket T is visible in shared state,
\* trade history holds a Confirmed record with ticket T; and the history
\* update of a close request fills the close fields of such a record of the
\* position it cleared.
C29_Original ==
    /\ [](IsSome(open_position)
            => \E k \in 1..Len(trade_history) :
                  /\ trade_history[k].status = "Confirmed"
                  /\ trade_history[k].mt5_ticket = Unwrap(open_position).mt5_ticket)
    /\ [][ (close_pc = "history" /\ close_pc' # "history")
           => \E k \in 1..Len(trade_history') :
                 /\ trade_history'[k].status = "Confirmed"
                 /\ trade_history'[k].mt5_ticket = Unwrap(current_pos).mt5_ticket
                 /\ trade_history'[k].strategy_id = Unwrap(current_pos).strategy_id
                 /\ trade_history'[k].close_reason = Some(Unwrap(payload).close_reason)
         ]_vars

\* ---------------------------------------------------------------------------
\* Claims about the kill switch and the dispatch
\* ---------------------------------------------------------------------------
\* C27: after kill() has completed and until rearm() is called, no order is
\* posted to the broker, also not by a dispatch that was approved before the
\* kill and had not yet issued its broker call.
C27_Original ==
    [][ ( /\ risk.is_killed
          /\ \E reason \in KillReasons : risk.kill_reason = Some(reason) )
        => broker_orders' = broker_orders ]_vars

\* ---------------------------------------------------------------------------
\* Claims about what trade history holds
\* ---------------------------------------------------------------------------
\* the records of history made from the TradeRecord with this trade_id
HistoryOf(id) == { k \in 1..Len(trade_history) : trade_history[k].trade_id = id }

C32_Cooldown ==
    [][ /\ RecordFailureCall
           => /\ risk'.last_failure_at = Some(now)
              /\ IsSome(risk.last_failure_at) => now >= risk.last_failure_at[1]
        /\ risk'.last_failure_at # risk.last_failure_at
           => RecordFailureCall \/ kill_switch_off
        /\ RecordSuccessCall => risk'.last_failure_at = risk.last_failure_at
        /\ ( /\ PreTradeCheckCall
             /\ IsSome(risk.last_failure_at)
             /\ now < risk.last_failure_at[1] + cooldown_secs_after_failure )
           => /\ decision'[1].kind = "Blocked"
              /\ risk'.last_trade_at = risk.last_trade_at
              /\ approvals' = approvals ]_vars

\* C32 witness: a failure was recorded at time 0 and a success after it; the
\* check made at 299, one second before the cooldown ends, is turned away by
\* the cooldown with the switch not thrown
C32_Witness ==
    /\ risk.last_failure_at = Some(0)
    /\ risk.consecutive_failures = 0
    /\ ~risk.is_killed
    /\ now = cooldown_secs_after_failure - 1
    /\ decision # None
    /\ decision[1].kind = "Blocked"
    /\ decision[1].fmt = "Cooldown: {remaining}s remaining after last failure"
    /\ decision[1].n = 1

\* C33: pre_trade_check counts a slot exactly when it returns Approved: then
\* trades_today is its value after the daily reset plus one and last_trade_at
\* is the time of the check. A Blocked result leaves trades_today at its value
\* after the daily reset and last_trade_at unchanged. Either way
\* consecutive_failures and last_failure_at are unchanged, and is_killed /
\* kill_reason change only when the result is the Auto-kill block, which sets
\* them.
C33_PreTradeFrame ==
    [][ PreTradeCheckCall
        => /\ IF decision'[1].kind = "Approved"
              THEN /\ risk'.trades_today = TradesTodayAfterReset + 1
                   /\ risk'.last_trade_at = Some(now)
              ELSE /\ decision'[1].kind = "Blocked"
                   /\ risk'.trades_today = TradesTodayAfterReset
                   /\ risk'.last_trade_at = risk.last_trade_at
           /\ risk'.consecutive_failures = risk.consecutive_failures
           /\ risk'.last_failure_at = risk.last_failure_at
           /\ IF decision'[1].fmt = "Auto-kill: {} consecutive execution failures"
              THEN /\ ~risk.is_killed
                   /\ risk'.is_killed
                   /\ risk'.kill_reason = Some(Str(decision'[1].fmt, decision'[1].n))
              ELSE /\ risk'.is_killed = risk.is_killed
                   /\ risk'.kill_reason = risk.kill_reason ]_vars

\* C33 witness: a check was approved on day 0; on day 1 a failure was
\* recorded and the check made in its cooldown was turned away, resetting
\* trades_today for the new day and leaving last_trade_at at the approval
C33_Witness ==
    /\ risk.daily_reset_date = 1
    /\ risk.trades_today = 0
    /\ risk.last_trade_at = Some(0)
    /\ risk.consecutive_failures = 1
    /\ risk.last_failure_at = Some(SECS_PER_DAY)
    /\ ~risk.is_killed
    /\ decision # None
    /\ decision[1].fmt = "Cooldown: {remaining}s remaining after last failure"
    /\ decision[1].n = cooldown_secs_after_failure

\* C34: rearm() sets is_killed = false, kill_reason = None,
\* consecutive_failures = 0 and last_failure_at = None and leaves
\* trades_today, last_trade_at and daily_reset_date unchanged; and a
\* pre_trade_check made on the state rearm() leaves returns Approved unless
\* the daily trade limit is reached, in which case it returns the Daily-limit
\* block.
C34_RearmFrame ==
    [][ /\ kill_switch_off
           => /\ ~risk'.is_killed
              /\ risk'.kill_reason = None
              /\ risk'.consecutive_failures = 0
              /\ risk'.last_failure_at = None
              /\ risk'.trades_today = risk.trades_today
              /\ risk'.last_trade_at = risk.last_trade_at
              /\ risk'.daily_reset_date = risk.daily_reset_date
              /\ PreTradeDecision(risk', now').kind = "Approved"
                 <=> ~DailyLimitReached(DailyReset(risk', now'))
        /\ ( /\ PreTradeCheckCall
             /\ risk = rearm(risk) )
           => IF TradesTodayAfterReset >= max_trades_per_day
              THEN decision'[1].fmt = "Daily trade limit reached: {}/{}"
              ELSE /\ decision'[1].kind = "Approved"
                   /\ risk'.trades_today = TradesTodayAfterReset + 1 ]_vars

\* C34 witness: three failures were counted, a check threw the switch and the
\* next was turned away by it; rearm() has since cleared the switch, the
\* count and the failure stamp and kept the slot consumed before
C34_Witness ==
    /\ decision # None
    /\ decision[1].fmt = "Kill switch active: {}"
    /\ decision[1].s = Str("Auto-kill: {} consecutive execution failures",
                           max_consecutive_failures)
    /\ ~risk.is_killed
    /\ risk.kill_reason = None
    /\ risk.consecutive_failures = 0
    /\ risk.last_failure_at = None
    /\ risk.trades_today = 1
    /\ risk.last_trade_at = Some(0)

\* ---------------------------------------------------------------------------
\* Claims about the guards
\* ---------------------------------------------------------------------------
\* the handlers that stand between h and the guard it is waiting for: the
\* holders of that lock and the waiters queued before h
BlockedBy(h) ==
    UNION { IF \E i \in 1..Len(rwlock[l].queue) : rwlock[l].queue[i].who = h
            THEN { g \in Handlers \ {h} : l \in HeldBy(g) }
                 \cup { rwlock[l].queue[i].who :
                          i \in { j \in 1..Len(rwlock[l].queue) :
                                    \A k \in 1..j : rwlock[l].queue[k].who # h } }
                 \cup (IF l \in HeldBy(h) THEN {h} ELSE {})
            ELSE {} : l \in Locks }

\* the handlers h waits for, directly or through others
RECURSIVE BlockedByUpTo(_, _)
BlockedByUpTo(hs, n) ==
    IF n = 0 THEN hs
    ELSE BlockedByUpTo(hs \cup UNION { BlockedBy(g) : g \in hs }, n - 1)

\* C35: a handler waiting on the broker call holds no guard and waits for
\* none; a handler holds the read guard of the active plan only up to the drop
\* that follows its acquisition, with no other guard held; so whoever is
\* waiting for a lock while a dispatch is at the broker is not waiting for that
\* dispatch.
C35_NoLockAcrossIo ==
    \A h \in Handlers :
        /\ (lock_trace[h] # << >> /\ Head(lock_trace[h]).op = "io")
           => /\ HeldBy(h) = {}
              /\ ~Waiting(h)
              /\ \A g \in Handlers : h \notin BlockedByUpTo({g}, Cardinality(Handlers))
                                         \/ g = h
        /\ h \in rwlock["active_strategy"].readers
           => /\ HeldBy(h) = {"active_strategy"}
              /\ Head(lock_trace[h]) \in { Release("active_strategy"),
                                            ReleaseExit("active_strategy") }

\* C35 witness: one dispatch is at the broker while a plan ingest or clear holds
\* the write guard of the active plan, the close handler holds the write guard
\* of the open position, and the other tick handler is inside record_tick with
\* both of its guards
C35_Witness ==
    /\ lock_trace["handle_tick"] = << AwaitBroker >>
    /\ rwlock["active_strategy"].writer = Some("route")
    /\ rwlock["open_position"].writer = Some("handle_position_close")
    /\ HeldBy("handle_tick_2") = {"tick_buffer", "latest_candle"}

\* no handler waits, directly or through others, for itself, and of the
\* handlers in flight at least one can take its next step
NoWaitCycle ==
    \A h \in Handlers :
        /\ h \notin BlockedByUpTo(BlockedBy(h), Cardinality(Handlers))
        /\ lock_trace[h] # << >>
           => \E g \in Handlers :
                 /\ lock_trace[g] # << >>
                 /\ \/ Head(lock_trace[g]).op \in {"release", "io"}
                    \/ ~Waiting(g)
                    \/ /\ Head(rwlock[Head(lock_trace[g]).lock].queue).who = g
                       /\ CanTake(Head(lock_trace[g]).lock, Head(lock_trace[g]).mode)

\* C36: no reachable state holds a wait cycle, record_tick's nested
\* acquisition included, so no reachable state is a deadlock; and, the
\* runtime polling every task that can run and the broker call ending, every
\* request that has started returns.
C36_NoDeadlock ==
    /\ []NoWaitCycle
    /\ \A h \in Handlers : (lock_trace[h] # << >>) ~> (lock_trace[h] = << >>)

\* C36 witness: a tick handler inside record_tick holds the buffer guard and
\* the candle guard while the other tick handler waits in the queue of the
\* buffer lock and the close handler waits for a lock of its own
C36_Witness ==
    /\ HeldBy("handle_tick") = {"tick_buffer", "latest_candle"}
    /\ Len(rwlock["tick_buffer"].queue) = 1
    /\ rwlock["tick_buffer"].queue[1].who = "handle_tick_2"
    /\ lock_trace["handle_position_close"] # << >>
    /\ Waiting("handle_position_close")

\* ---------------------------------------------------------------------------
\* Claims about plans a tick must not act on
\* ---------------------------------------------------------------------------
\* C37: a tick evaluated while the active plan is expired (now >= expiry) or
\* has direction NoTrade gets NoAction, with nothing but the tick bookkeeping
\* changed; hence no handler ever works on a NoTrade plan past the guards, the
\* unreachable branch of the entry-price selection is never taken, and
\* build_order never fails: no order is built or posted for a NoTrade plan.
C37_InertPlanNoAction ==
    /\ [][ \A p \in Procs :
             ( /\ pc[p] = "read_strategy"
               /\ pc'[p] # pc[p]
               /\ IsSome(active_strategy)
               /\ \/ active_strategy[1].direction = "NoTrade"
                  \/ /\ IsSome(active_strategy[1].expires_at)
                     /\ now >= active_strategy[1].expires_at[1] )
             => /\ pc'[p] = "done"
                /\ response'[p] = Some("NO_ACTION")
                /\ strategy'[p] = None
                /\ UNCHANGED << shared, world, decision, approvals >> ]_vars
    /\ [](\A p \in Procs :
            /\ IsSome(strategy[p]) => strategy[p][1].direction \in {"Buy", "Sell"}
            /\ response[p] # Some("PANIC")
            /\ response[p] = Some("ERROR") => IsSome(result[p])
            /\ IsSome(order[p]) => order[p][1].action \in {"BUY", "SELL"})

\* C37 witness: a NoTrade plan is installed; the buffer holds a probe below
\* the zone and a sample inside it, and the tick inside the zone that has just
\* been answered got NO_ACTION with no order posted
C37_Witness ==
    \E p \in Procs :
        /\ IsSome(active_strategy)
        /\ active_strategy[1].direction = "NoTrade"
        /\ pc[p] = "done"
        /\ response[p] = Some("NO_ACTION")
        /\ strategy[p] = None
        /\ tick_count = 3
        /\ tick_buffer["BTCUSD"][1].mid < Zone.low
        /\ contains(Zone, tick_buffer["BTCUSD"][2].mid)
        /\ contains(Zone, tick[p][1].ask)
        /\ contains(Zone, tick[p][1].bid)
        /\ broker_orders = << >>
        /\ trade_count = 0

\* ---------------------------------------------------------------------------
\* Claims about single gates of the confirmation engine
\* ---------------------------------------------------------------------------
\* C38: once the spread gate has passed, check_confirmation rejects with
\* "no zone probe detected" exactly when require_zone_probe is set and none
\* of the min(buffer length, probe_lookback) newest buffer entries has its mid
\* strictly below zone.low (Buy) or strictly above zone.high (Sell); older
\* entries do not count, an empty buffer fails, and with require_zone_probe
\* false the verdict is that of the dwell gate alone (RSI absent).
C38_ProbeGate ==
    confirmation # None =>
        LET c == confirmation[1]
            r == c.result
        IN  ~SpreadGateFails(c)
            => /\ r = Rejected("no zone probe detected")
                  <=> (c.require_zone_probe /\ ProbeGateFails(c))
               /\ (c.require_zone_probe /\ c.buffer = << >>)
                  => r = Rejected("no zone probe detected")
               /\ (c.require_zone_probe /\ ~ProbeGateFails(c))
                  => \E i \in 1..Len(c.buffer) :
                        /\ Len(c.buffer) - i < probe_lookback
                        /\ IF c.dir = "Buy" THEN c.buffer[i].mid < Zone.low
                                            ELSE c.buffer[i].mid > Zone.high
               /\ ~c.require_zone_probe
                  => r = (IF DwellGateFails(c)
                          THEN Rejected("insufficient zone dwell") ELSE Confirmed)

\* C38 witness: the only sample below the zone is the oldest of sixteen, one
\* too old for the lookback of fifteen, and the Buy call with the probe
\* required is rejected for the missing probe
C38_Witness ==
    /\ confirmation # None
    /\ confirmation[1].require_zone_probe
    /\ confirmation[1].dir = "Buy"
    /\ Len(confirmation[1].buffer) = probe_lookback + 1
    /\ confirmation[1].buffer[1].mid < Zone.low
    /\ confirmation[1].current_ask - confirmation[1].current_bid <= max_spread
    /\ confirmation[1].result = Rejected("no zone probe detected")

\* C39: once spread, probe and dwell have passed, check_confirmation rejects
\* with "rsi out of range" exactly when an RSI value is present and (Buy and
\* rsi >= rsi_overbought, or Sell and rsi <= rsi_oversold), and it gives that
\* reason in no other case; with RSI absent the verdict is that of the first
\* three gates alone.
C39_RsiGate ==
    confirmation # None =>
        LET c     == confirmation[1]
            r     == c.result
            early == SpreadGateFails(c) \/ ProbeGateFails(c) \/ DwellGateFails(c)
            out   == /\ c.rsi # None
                     /\ \/ c.dir = "Buy"  /\ c.rsi[1] >= rsi_overbought
                        \/ c.dir = "Sell" /\ c.rsi[1] <= rsi_oversold
        IN  /\ r = Rejected("rsi out of range") <=> (~early /\ out)
            /\ ~early => (r.confirmed <=> ~out)
            /\ c.rsi = None
               => r = (IF SpreadGateFails(c) THEN Rejected("spread too wide")
                       ELSE IF ProbeGateFails(c) THEN Rejected("no zone probe detected")
                       ELSE IF DwellGateFails(c) THEN Rejected("insufficient zone dwell")
                       ELSE Confirmed)

\* C39 witness: a Sell call that passed spread, probe and dwell, with RSI
\* equal to rsi_oversold, is rejected for its RSI
C39_Witness ==
    /\ confirmation # None
    /\ confirmation[1].dir = "Sell"
    /\ confirmation[1].rsi = Some(rsi_oversold)
    /\ ~SpreadGateFails(confirmation[1])
    /\ ~ProbeGateFails(confirmation[1])
    /\ ~DwellGateFails(confirmation[1])
    /\ confirmation[1].result = Rejected("rsi out of range")

\* the locals of simulate after the first k ticks of the request
SimAfter(req, k) ==
    SimulateLoop(SimNew, req.strategy, SubSeq(req.ticks, 1, k), 1, now)

\* check_confirmation is reached on tick k and answers Confirmed
ConfirmedAt(req, k) ==
    LET st  == req.strategy
        tk  == req.ticks[k]
        a   == SimAfter(req, k - 1)
        px  == IF st.direction = "Buy" THEN tk.ask ELSE tk.bid
    IN  /\ st.direction # "NoTrade"
        /\ a.open_pos = None
        /\ st.symbol = tk.symbol
        /\ is_valid(st, now)
        /\ contains(st.entry_zone, px)
        /\ check_confirmation(tk.bid, tk.ask, st.entry_zone, st.direction,
                              BufferPush(a.tick_buffer, tk.bid, tk.ask), None).confirmed

\* C40: the backtest holds at most one simulated position: on every tick an
\* open position is tested for exit (bid against TP and SL for Buy, ask for
\* Sell) and no entry is considered on that tick; a trade is opened only
\* when no position is open; in the result every trade but the last is
\* TpHit or SlHit, the last is Open exactly when a position is still held,
\* and total_trades is the number of Confirmed verdicts.
C40_SinglePosition ==
    (backtest # None /\ backtest[1].result # None) =>
        LET req == backtest[1]
            res == req.result[1]
            st  == req.strategy
            n   == Len(req.ticks)
        IN  /\ \A k \in 1..n :
                  LET a      == SimAfter(req, k - 1)
                      b      == SimAfter(req, k)
                      tk     == req.ticks[k]
                      px     == IF st.direction = "Buy" THEN tk.bid ELSE tk.ask
                      tp_hit == IF st.direction = "Buy" THEN px >= st.take_profit
                                                        ELSE px <= st.take_profit
                      sl_hit == IF st.direction = "Buy" THEN px <= st.stop_loss
                                                        ELSE px >= st.stop_loss
                  IN  /\ a.open_pos # None
                         => /\ Len(b.trades) = Len(a.trades)
                            /\ b.rejections = a.rejections
                            /\ (b.open_pos = None) <=> (tp_hit \/ sl_hit)
                            /\ (tp_hit \/ sl_hit)
                               => b.trades[Len(b.trades)].outcome =
                                     (IF tp_hit THEN "TpHit" ELSE "SlHit")
                            /\ ~(tp_hit \/ sl_hit) => b.open_pos = a.open_pos
                      /\ Len(b.trades) # Len(a.trades)
                         => /\ a.open_pos = None
                            /\ b.open_pos # None
                            /\ Len(b.trades) = Len(a.trades) + 1
                            /\ ConfirmedAt(req, k)
                      /\ (b.open_pos # None)
                            <=> /\ b.trades # << >>
                                /\ b.trades[Len(b.trades)].outcome = "Open"
            /\ res.trades = SimAfter(req, n).trades
            /\ \A j \in 1..(Len(res.trades) - 1) :
                  res.trades[j].outcome \in {"TpHit", "SlHit"}
            /\ res.total_trades = Len(res.trades)
            /\ res.total_trades = Cardinality({ k \in 1..n : ConfirmedAt(req, k) })

\* C40 witness: a Buy replay of five ticks with two trades, the first left
\* at its stop-loss and the second at its take-profit on the last tick
C40_Witness ==
    /\ backtest # None
    /\ backtest[1].result # None
    /\ backtest[1].strategy.direction = "Buy"
    /\ Len(backtest[1].ticks) = 5
    /\ backtest[1].result[1].total_trades = 2
    /\ backtest[1].result[1].trades[1].outcome = "SlHit"
    /\ backtest[1].result[1].trades[2].outcome = "TpHit"
    /\ backtest[1].result[1].trades[2].tick_index = 3

====
